---- MODULE Spec2Model ----
(***************************************************************************)
(* The garden planner's editor (src/unnamed/part_000, the GardenPlanner    *)
(* component) and the persistence endpoint it talks to (src/server.js),    *)
(* as a state machine.                                                     *)
(*                                                                         *)
(* The component's useState cells are the variables, under their own       *)
(* names.  One action is one event handler or one asynchronous             *)
(* continuation, together with the effects React runs after the commit     *)
(* that the handler causes (the save effect of line 283, the render        *)
(* effect of lines 436-466).  A handler reads the state of the last        *)
(* commit; a continuation that resumes after an await reads what it        *)
(* captured when it started.                                               *)
(*                                                                         *)
(* Numbers: coordinates are integers (image pixels), the zoom scale is     *)
(* kept in tenths (scale = 10 is 1.0), Math.sqrt(d) < r is d < r*r.        *)
(***************************************************************************)
EXTENDS Integers, Sequences, FiniteSets, TLC

(* ------------------------------ bounds --------------------------------- *)

\* Date.now() starts at FirstNow and advances to at most MaxClock.
MaxClock == 11
\* The project list holds at most MaxProjects projects.
MaxProjects == 2
\* The marker collection holds at most MaxMarkers markers.
MaxMarkers == 2
\* At most MaxInFlight responses of saveData are outstanding at a time.
MaxInFlight == 1
\* Panning keeps |pan.x| and |pan.y| within MaxPan.
MaxPan == 40

\* The most entries a journal gets.
MaxEntries == 2

\* The server gets at most MaxRequests POST requests.
MaxRequests == 2

(* -------------------------- program constants -------------------------- *)

HIT_RADIUS == 30
DRAG_RADIUS == 50
MIN_SCALE == 2
MAX_SCALE == 50
ZOOM_STEP == 5
MARKER_RADIUS == 8
MOVING_RADIUS == 12
DEFAULT_CANVAS_WIDTH == 300
DEFAULT_CANVAS_HEIGHT == 150
LABEL_PADDING == 6
BOX_HEIGHT == 26
LABEL_OFFSET_X == 14
LABEL_OFFSET_Y == 13

(* ------------------------------- values -------------------------------- *)

\* JavaScript's null.
Null == [null |-> TRUE]

FirstNow == 10

Max(a, b) == IF a >= b THEN a ELSE b
Min(a, b) == IF a <= b THEN a ELSE b

\* An image reference is a string.  One that starts with "data:image" is
\* inline data: "data:image/<type>;base64,<payload>" when base64, or another
\* form of data URI (";utf8,", ";charset=...") when not; `content` is the
\* image the payload holds.
DataUri(type, base64, c) ==
  [inline |-> TRUE, type |-> type, base64 |-> base64, content |-> c]

\* Any other reference is a path or URL.  "/uploads/<md5>.<ext>" is the file
\* of extension `ext` named by the MD5 hash of the bytes of image `content`.
StoredAs(ext, c) == [inline |-> FALSE, ext |-> ext, content |-> c]

\* resizeImage, line 91: canvas.toDataURL('image/jpeg', 0.9), the reference
\* of every image the component imports.
Inline(c) == DataUri("jpeg", TRUE, c)

\* The path processImage gives that image.
Stored(c) == StoredAs("jpg", c)

\* The image files a user may pick.
Contents == {3}

\* naturalWidth / naturalHeight of a decoded image.
NaturalWidth(img) == 200 * img.content
NaturalHeight(img) == 200

\* A marker numbered by the count before the click, not that count plus one.
NewMarkerNumberedFromZero(id, x, y, n) ==
  [id |-> id, x |-> x, y |-> y, label |-> "Plant " \o ToString(n - 1),
   description |-> "", photos |-> <<>>, journalEntries |-> <<>>,
   linkedPlant |-> Null, color |-> "#10b981"]

\* The marker a placement click creates (line 399).
NewMarker(id, x, y, n) ==
  [id |-> id, x |-> x, y |-> y, label |-> "Plant " \o ToString(n),
   description |-> "", photos |-> <<>>, journalEntries |-> <<>>,
   linkedPlant |-> Null, color |-> "#10b981"]

\* The project an image import creates (line 322).
NewProject(id, content) ==
  [id |-> id, name |-> "garden", image |-> Inline(content),
   markers |-> <<>>, globalJournalEntries |-> <<>>]

(* --------------------------- server.js --------------------------------- *)

\* Line 30: the characters of the class [A-Za-z-+\/].
TypeChars == "ABCDEFGHIJKLMNOPQRSTUVWXYZabcdefghijklmnopqrstuvwxyz-+/"

\* Line 30: ([A-Za-z-+\/]+) matches the whole of `type`.
InTypeClass(type) ==
  /\ Len(type) > 0
  /\ \A i \in 1..Len(type) :
       \E k \in 1..Len(TypeChars) : SubSeq(type, i, i) = SubSeq(TypeChars, k, k)

\* Lines 30-31: the data URI matches
\* /^data:image\/([A-Za-z-+\/]+);base64,(.+)$/.
Matches(img) == img.base64 /\ InTypeClass(img.type)

\* A processImage that keeps the type as the extension.
ExtOfType(type) == type

\* Line 32: the extension of the file.
Ext(type) == IF type = "jpeg" THEN "jpg" ELSE type

\* processImage, lines 27-43, where `failed` are the references whose
\* fs.writeFile is rejected: a reference that is missing, is not inline data
\* or does not match is returned as it is; so is one whose file cannot be
\* written (line 41); any other is written to uploads/<md5>.<ext> and that
\* path is returned.
ProcessImage(img, failed) ==
  IF img = Null THEN img
  ELSE IF ~img.inline THEN img
  ELSE IF ~Matches(img) THEN img
  ELSE IF img \in failed THEN img
  ELSE StoredAs(Ext(img.type), img.content)

ProcessPhotos(photos, failed) ==
  [i \in 1..Len(photos) |-> ProcessImage(photos[i], failed)]

ProcessEntries(entries, failed) ==
  [i \in 1..Len(entries) |->
     [entries[i] EXCEPT !.photos = ProcessPhotos(entries[i].photos, failed)]]

ProcessMarker(m, failed) ==
  [m EXCEPT !.photos = ProcessPhotos(m.photos, failed),
            !.journalEntries = ProcessEntries(m.journalEntries, failed)]

CleanProject(p, failed) ==
  [p EXCEPT !.image = ProcessImage(p.image, failed),
            !.markers = [i \in 1..Len(p.markers) |->
                           ProcessMarker(p.markers[i], failed)],
            !.globalJournalEntries =
               ProcessEntries(p.globalJournalEntries, failed)]

\* cleanProjectData, lines 45-73, where `failed` are the references whose
\* file cannot be written.
CleanProjectDataWhen(ps, failed) ==
  [i \in 1..Len(ps) |-> CleanProject(ps[i], failed)]

\* cleanProjectData with the uploads directory writable.
CleanProjectData(ps) == CleanProjectDataWhen(ps, {})

(* ------------------ what the data file may hold at start --------------- *)

StoredMarker(id, x, y, n) == NewMarker(id, x, y, n)

ProjectA ==
  [id |-> 1, name |-> "A", image |-> Stored(1),
   markers |-> << StoredMarker(1, 18, 24, 1), StoredMarker(2, 30, 40, 2) >>,
   globalJournalEntries |-> << [id |-> 3, timestamp |-> 3, text |-> "sown", photos |-> <<>>] >>]

ProjectB ==
  [id |-> 2, name |-> "B", image |-> Stored(2),
   markers |-> <<>>, globalJournalEntries |-> <<>>]

InitialFiles == { <<>>, <<ProjectA, ProjectB>> }

(* ------------------------------ helpers -------------------------------- *)

\* array.find(p), where `places` are the indices of the elements of s that
\* satisfy p: the first of these elements, or undefined (Null).
FindFirst(s, places) ==
  IF places = {} THEN Null
  ELSE s[CHOOSE i \in places : \A j \in places : i <= j]

Dist2(ax, ay, bx, by) == (ax - bx) * (ax - bx) + (ay - by) * (ay - by)

(* ------------------------------- state --------------------------------- *)

VARIABLES
  projects, currentProject, markers, globalJournalEntries,   \* lines 234-236, 256
  tool, selectedItem, showNoteDialog,                        \* lines 237-242
  noteText, noteDescription, notePhotos,                     \* lines 243-245
  markerJournalEntries, linkedPlant,                         \* lines 246-247
  showDeleteMarkerConfirm, showDeleteProjectConfirm,         \* lines 252-253
  showSidebar,                                               \* line 254
  scale, pan, isPanning, panStart, relocatingMarker,         \* lines 265-269
  imageLoaded,                                               \* line 272
  now,            \* the value Date.now() returns
  loadPending,    \* the response of loadData's GET that has not arrived yet
  uploadPending,  \* image imports whose read/resize has not completed
  deletePending,  \* deleteCurrentProject calls suspended at their await
  inflight,       \* responses of saveData's POST that have not arrived yet
  imgComplete,    \* the <img> element's `complete`
  canvas,         \* the <canvas> element: its size and what is drawn on it
  drawOps,        \* what the render effect drew in the last step
  server,         \* server.js: the data file, the POST requests it is
                  \* handling and what it answered last
  lastOp,         \* the last handler that changed programState
                  \* ("loadProject" when it called loadProject)
  relocFrom       \* history of the pending relocation, while only pointer
                  \* events and save callbacks have followed startRelocation:
                  \* the marker's place `index` in the collection `at` of
                  \* that moment, its persisted position (x, y), the
                  \* point `p` of the last drag (Null before the first) and
                  \* the `press` that no release has followed yet: "near"
                  \* (within DRAG_RADIUS of the relocating marker), "far"
                  \* or "none"

projVars == <<projects, currentProject, markers, globalJournalEntries>>
dialogVars == <<selectedItem, showNoteDialog, noteText, noteDescription,
                notePhotos, markerJournalEntries, linkedPlant>>
confirmVars == <<showDeleteMarkerConfirm, showDeleteProjectConfirm>>
viewVars == <<scale, pan, isPanning, panStart>>
asyncVars == <<loadPending, uploadPending, deletePending>>
domVars == <<inflight, imgComplete, canvas>>

vars == <<projects, currentProject, markers, globalJournalEntries,
          tool, selectedItem, showNoteDialog, noteText, noteDescription,
          notePhotos, markerJournalEntries, linkedPlant,
          showDeleteMarkerConfirm, showDeleteProjectConfirm, showSidebar,
          scale, pan, isPanning, panStart, relocatingMarker, imageLoaded,
          now, loadPending, uploadPending, deletePending, inflight,
          imgComplete, canvas, drawOps, server, lastOp, relocFrom>>

\* What the component and the page hold, without the clock and the history.
programState == <<projects, currentProject, markers, globalJournalEntries,
                  tool, selectedItem, showNoteDialog, noteText, noteDescription,
                  notePhotos, markerJournalEntries, linkedPlant,
                  showDeleteMarkerConfirm, showDeleteProjectConfirm,
                  showSidebar, scale, pan, isPanning, panStart,
                  relocatingMarker, imageLoaded, loadPending, uploadPending,
                  deletePending, inflight, imgComplete, canvas>>

\* lastOp names the last handler that changed programState, so that the
\* state is that handler's result; a call that changed nothing leaves it.
\* A step of the component is no step of the server.
Stamp(op) ==
  /\ lastOp' = IF programState' = programState THEN lastOp ELSE op
  /\ UNCHANGED server

\* The content of data/garden-data.json: a project list as JSON text, or
\* text that JSON.parse rejects.
FileOf(ps) == [json |-> TRUE, projects |-> ps]
Garbled == [json |-> FALSE, projects |-> <<>>]

\* The server with `ps` in its data file and no request in progress.
\* `arrived` counts the POST requests, `last` is the body of the latest,
\* `jobs` are those being handled, `done` tells body, response and failed
\* image writes of the one answered last, `failed` whether one was answered
\* with status 500, `got` is the last answer to a GET.
ServerStart(ps) ==
  [file |-> FileOf(ps), arrived |-> 0, last |-> <<>>, jobs |-> {},
   done |-> Null, failed |-> FALSE, got |-> Null]

\* No <canvas> in the document (the welcome screen is shown).
NoCanvas == [mounted |-> FALSE, width |-> 0, height |-> 0, glyphs |-> <<>>]

\* A <canvas> as React mounts it: the default 300 x 150 surface, blank.
FreshCanvas ==
  [mounted |-> TRUE, width |-> DEFAULT_CANVAS_WIDTH,
   height |-> DEFAULT_CANVAS_HEIGHT, glyphs |-> <<>>]

Origin == [x |-> 0, y |-> 0]

\* The state after the component is constructed, with loadData's GET on its
\* way to a server whose data file holds one of `files`.
InitOn(files) ==
  /\ projects = <<>>
  /\ currentProject = Null
  /\ markers = <<>>
  /\ globalJournalEntries = <<>>
  /\ tool = "marker"
  /\ selectedItem = Null
  /\ showNoteDialog = FALSE
  /\ noteText = ""
  /\ noteDescription = ""
  /\ notePhotos = <<>>
  /\ markerJournalEntries = <<>>
  /\ linkedPlant = Null
  /\ showDeleteMarkerConfirm = FALSE
  /\ showDeleteProjectConfirm = FALSE
  /\ showSidebar = FALSE
  /\ scale = 10
  /\ pan = Origin
  /\ isPanning = FALSE
  /\ panStart = Origin
  /\ relocatingMarker = Null
  /\ imageLoaded = FALSE
  /\ now = FirstNow
  /\ \E f \in files :
       /\ loadPending = {f}
       /\ server = ServerStart(f)
  /\ uploadPending = {}
  /\ deletePending = {}
  /\ inflight = {}
  /\ imgComplete = FALSE
  /\ canvas = NoCanvas
  /\ drawOps = <<>>
  /\ lastOp = "init"
  /\ relocFrom = Null

Init == InitOn(InitialFiles)

(* ------------------ the effects that follow a commit ------------------- *)

\* saveData, line 298: the project list with the record of the current
\* project replaced by { ...currentProject, markers, globalJournalEntries }.
SaveDataProjects(ps, cp, ms, js) ==
  [i \in 1..Len(ps) |->
     IF ps[i].id = cp.id
     THEN [cp EXCEPT !.markers = ms, !.globalJournalEntries = js]
     ELSE ps[i]]

\* A guard that lacks line 443's `!imageLoaded`.
RenderGuardWithoutImageLoaded(cp, complete, loaded) == cp # Null /\ complete

\* The render effect's guard, lines 437 and 443: a project is current (so the
\* canvas and the image are mounted), the image is complete and imageLoaded.
RenderGuard(cp, complete, loaded) == cp # Null /\ complete /\ loaded

\* Lines 457-458: ctx.measureText(label).width in the label font, taken as
\* 7 pixels for each character ("Plant 1" is 49 wide).
MeasureText(label) == 7 * Len(label)

\* A label box that lacks line 462's flip at the right edge.
LabelBoxNeverFlipped(m, width) ==
  [x |-> m.x + LABEL_OFFSET_X, y |-> m.y - LABEL_OFFSET_Y,
   width |-> MeasureText(m.label) + LABEL_PADDING * 2, height |-> BOX_HEIGHT]

\* Lines 458-463: the rounded box behind the label of marker m, on a canvas
\* `width` wide.
LabelBox(m, width) ==
  LET boxWidth == MeasureText(m.label) + LABEL_PADDING * 2
      labelX == m.x + LABEL_OFFSET_X
  IN [x |-> IF labelX + boxWidth > width
            THEN m.x - LABEL_OFFSET_X - boxWidth
            ELSE labelX,
      y |-> m.y - LABEL_OFFSET_Y,
      width |-> boxWidth, height |-> BOX_HEIGHT]

\* Lines 453-464: the glyph drawn for marker m, its disc and its label.
Glyph(m, rm, width) ==
  LET isMoving == rm # Null /\ rm.id = m.id
  IN [x |-> m.x, y |-> m.y,
      radius |-> IF isMoving THEN MOVING_RADIUS ELSE MARKER_RADIUS,
      fill |-> IF isMoving THEN "#fbbf24" ELSE m.color,
      label |-> m.label,
      box |-> LabelBox(m, width)]

\* Lines 452-465: markers.forEach, in collection order.
Glyphs(ms, rm, width) == [i \in 1..Len(ms) |-> Glyph(ms[i], rm, width)]

\* A render effect that lacks lines 445-447: it draws over what is there.
RenderOpsWithoutClear(cp, ms, rm) ==
  [i \in 1..Len(ms) |->
     [op |-> "glyph", glyph |-> Glyph(ms[i], rm, NaturalWidth(cp.image))]]

\* What the render effect does, as a list: resize (lines 445-446), clear
\* (line 447), one glyph per marker (lines 452-465).
RenderOps(cp, ms, rm) ==
  << [op |-> "resize", width |-> NaturalWidth(cp.image), height |-> NaturalHeight(cp.image)],
     [op |-> "clear"] >>
  \o [i \in 1..Len(ms) |->
        [op |-> "glyph", glyph |-> Glyph(ms[i], rm, NaturalWidth(cp.image))]]

\* What one operation does to the canvas: assigning canvas.width or
\* canvas.height resets the bitmap, clearRect over the whole canvas erases
\* it, a glyph is drawn on top of what is there.
ApplyOp(cv, o) ==
  IF o.op = "resize"
  THEN [cv EXCEPT !.width = o.width, !.height = o.height, !.glyphs = <<>>]
  ELSE IF o.op = "clear"
  THEN [cv EXCEPT !.glyphs = <<>>]
  ELSE [cv EXCEPT !.glyphs = Append(@, o.glyph)]

RECURSIVE ApplyOps(_, _)
ApplyOps(cv, ops) ==
  IF ops = <<>> THEN cv
  ELSE ApplyOps(ApplyOp(cv, Head(ops)), Tail(ops))

\* Lines 445-465: a freshly mounted canvas after the render effect has drawn.
Rendered(cp, ms, rm) == ApplyOps(FreshCanvas, RenderOps(cp, ms, rm))

\* The <canvas> and the <img> exist while a project is current (line 503);
\* the <img> starts loading when it is mounted or its src changes (line 509).
CanvasAfterCommit(cv1) ==
  IF currentProject' = Null THEN NoCanvas
  ELSE IF currentProject = Null THEN FreshCanvas
  ELSE cv1

CompleteAfterCommit(ic1) ==
  IF currentProject' = Null THEN FALSE
  ELSE IF currentProject = Null THEN FALSE
  ELSE IF currentProject'.image # currentProject.image THEN FALSE
  ELSE ic1

\* The effects of lines 283 and 436 after a commit.  ps1, cv1 and ic1 are the
\* project list, the canvas and the image's `complete` as the handler left
\* them; saveDeps says that markers, globalJournalEntries or currentProject
\* was set, renderDeps that markers, currentProject, relocatingMarker or
\* imageLoaded was.  A POST that finds MaxInFlight responses outstanding
\* is one that fails.
Effects(ps1, cv1, ic1, saveDeps, renderDeps) ==
  LET saves == saveDeps /\ currentProject' # Null
      sent == IF saves
              THEN SaveDataProjects(ps1, currentProject', markers', globalJournalEntries')
              ELSE ps1
      ic2 == CompleteAfterCommit(ic1)
      draws == renderDeps /\ RenderGuard(currentProject', ic2, imageLoaded')
  IN /\ projects' = sent
     /\ inflight' = IF saves /\ Cardinality(inflight) < MaxInFlight
                    THEN inflight \cup {CleanProjectData(sent)}
                    ELSE inflight
     /\ imgComplete' = ic2
     /\ canvas' = IF draws
                  THEN ApplyOps(CanvasAfterCommit(cv1),
                                RenderOps(currentProject', markers', relocatingMarker'))
                  ELSE CanvasAfterCommit(cv1)
     /\ drawOps' = IF draws
                   THEN RenderOps(currentProject', markers', relocatingMarker')
                   ELSE <<>>

\* A handler that sets none of the effects' dependencies.
NoEffects ==
  /\ UNCHANGED <<projects, inflight, imgComplete, canvas>>
  /\ drawOps' = <<>>

(* --------------------------- what is on screen ------------------------- *)

\* A ConfirmDialog (z-index 100) covers everything else (lines 693-695).
ConfirmOpen == showDeleteMarkerConfirm \/ showDeleteProjectConfirm

\* The detail editor (z-index 50) covers the header, the canvas, the
\* toolbars and the sidebar (line 603).
Covered == showNoteDialog \/ ConfirmOpen

\* The canvas, the toolbars and the header are shown while a project is
\* current (lines 472 and 503).
EditorShown == currentProject # Null /\ ~Covered

(* ------------------------- project lifecycle --------------------------- *)

\* A loadProject that lacks line 312's setRelocatingMarker(null).
LoadProjectKeepingRelocation(project) ==
  /\ currentProject' = project
  /\ markers' = project.markers
  /\ globalJournalEntries' = project.globalJournalEntries
  /\ scale' = 10
  /\ pan' = Origin
  /\ relocatingMarker' = relocatingMarker
  /\ imageLoaded' = FALSE

\* loadProject, lines 306-314.
LoadProject(project) ==
  /\ currentProject' = project
  /\ markers' = project.markers
  /\ globalJournalEntries' = project.globalJournalEntries
  /\ scale' = 10
  /\ pan' = Origin
  /\ relocatingMarker' = Null
  /\ imageLoaded' = FALSE

\* loadData, line 295: the GET's response arrives.
LoadDataResponse ==
  \E loadedProjects \in loadPending :
    /\ loadPending' = {}
    /\ IF Len(loadedProjects) > 0
       THEN /\ LoadProject(loadedProjects[1])
            /\ Effects(loadedProjects, canvas, imgComplete, TRUE, TRUE)
            /\ relocFrom' = Null
       ELSE /\ UNCHANGED <<currentProject, markers, globalJournalEntries, scale,
                           pan, relocatingMarker, imageLoaded, relocFrom>>
            /\ Effects(loadedProjects, canvas, imgComplete, FALSE, FALSE)
    /\ UNCHANGED <<tool, dialogVars, confirmVars, showSidebar, isPanning,
                   panStart, now, uploadPending, deletePending>>
    /\ Stamp(IF Len(loadedProjects) > 0 THEN "loadProject" ELSE "loadData")

\* loadData, line 295: the GET fails (response not ok, or fetch throws).
LoadDataFail ==
  /\ loadPending # {}
  /\ loadPending' = {}
  /\ NoEffects
  /\ UNCHANGED <<currentProject, markers, globalJournalEntries, tool,
                 dialogVars, confirmVars, showSidebar, viewVars,
                 relocatingMarker, imageLoaded, now, uploadPending,
                 deletePending>>
  /\ Stamp("loadData")
  /\ UNCHANGED relocFrom

\* saveData, line 302: a POST's response arrives and is ok.
SaveResponse ==
  \E data \in inflight :
    /\ inflight' = inflight \ {data}
    /\ projects' = data
    /\ drawOps' = <<>>
    /\ UNCHANGED <<currentProject, markers, globalJournalEntries, tool,
                   dialogVars, confirmVars, showSidebar, viewVars,
                   relocatingMarker, imageLoaded, now, asyncVars,
                   imgComplete, canvas>>
    /\ Stamp("saveData")
    /\ UNCHANGED relocFrom

\* A saveData that lacks line 302's tests of `res.ok` and `data.data` and
\* empties the project list when a request fails.
SaveFailAdopting ==
  \E data \in inflight :
    /\ inflight' = inflight \ {data}
    /\ projects' = <<>>
    /\ drawOps' = <<>>
    /\ UNCHANGED <<currentProject, markers, globalJournalEntries, tool,
                   dialogVars, confirmVars, showSidebar, viewVars,
                   relocatingMarker, imageLoaded, now, asyncVars,
                   imgComplete, canvas>>
    /\ Stamp("saveData failed")
    /\ UNCHANGED relocFrom

\* saveData, lines 300-303: a POST fails (response not ok, or fetch throws).
SaveFail ==
  \E data \in inflight :
    /\ inflight' = inflight \ {data}
    /\ drawOps' = <<>>
    /\ UNCHANGED <<projects, currentProject, markers, globalJournalEntries, tool,
                   dialogVars, confirmVars, showSidebar, viewVars,
                   relocatingMarker, imageLoaded, now, asyncVars,
                   imgComplete, canvas>>
    /\ Stamp("saveData failed")
    /\ UNCHANGED relocFrom

\* handleImageUpload, lines 316-319 and 328: a file is chosen, from the
\* header's menu or from the welcome screen; the read starts.  The callback
\* keeps the project list of this render.
HandleImageUpload ==
  /\ ~Covered
  /\ uploadPending = {}
  /\ Len(projects) < MaxProjects
  /\ \E c \in Contents :
       uploadPending' = {[projects |-> projects, content |-> c]}
  /\ NoEffects
  /\ UNCHANGED <<currentProject, markers, globalJournalEntries, tool,
                 dialogVars, confirmVars, showSidebar, viewVars,
                 relocatingMarker, imageLoaded, now, loadPending,
                 deletePending>>
  /\ Stamp("handleImageUpload")
  /\ UNCHANGED relocFrom

\* handleImageUpload, lines 320-326: the read and the resize have completed.
ImageUploadDone ==
  \E u \in uploadPending :
    LET newProject == NewProject(now, u.content)
        updatedProjects == Append(u.projects, newProject)
    IN /\ uploadPending' = {}
       /\ LoadProject(newProject)
       /\ Effects(updatedProjects, canvas, imgComplete, TRUE, TRUE)
       /\ UNCHANGED <<tool, dialogVars, confirmVars, showSidebar, isPanning,
                      panStart, now, loadPending, deletePending>>
       /\ Stamp("loadProject")
       /\ relocFrom' = Null

\* The header menu's "Delete Map", line 488.
RequestDeleteProject ==
  /\ EditorShown
  /\ showDeleteProjectConfirm' = TRUE
  /\ NoEffects
  /\ UNCHANGED <<currentProject, markers, globalJournalEntries, tool,
                 dialogVars, showDeleteMarkerConfirm, showSidebar, viewVars,
                 relocatingMarker, imageLoaded, now, asyncVars>>
  /\ Stamp("requestDeleteProject")
  /\ UNCHANGED relocFrom

\* The project ConfirmDialog's Cancel, line 695.
CancelDeleteProject ==
  /\ showDeleteProjectConfirm
  /\ showDeleteProjectConfirm' = FALSE
  /\ NoEffects
  /\ UNCHANGED <<currentProject, markers, globalJournalEntries, tool,
                 dialogVars, showDeleteMarkerConfirm, showSidebar, viewVars,
                 relocatingMarker, imageLoaded, now, asyncVars>>
  /\ Stamp("cancelDeleteProject")
  /\ UNCHANGED relocFrom

\* deleteCurrentProject, lines 333-337: up to the await of the POST.
DeleteCurrentProject ==
  /\ showDeleteProjectConfirm
  /\ currentProject # Null
  /\ deletePending = {}
  /\ LET updatedProjects ==
           SelectSeq(projects, LAMBDA p : p.id # currentProject.id)
     IN /\ projects' = updatedProjects
        /\ deletePending' = {updatedProjects}
  /\ drawOps' = <<>>
  /\ UNCHANGED <<currentProject, markers, globalJournalEntries, tool,
                 dialogVars, confirmVars, showSidebar, viewVars,
                 relocatingMarker, imageLoaded, now, loadPending,
                 uploadPending, inflight, imgComplete, canvas>>
  /\ Stamp("deleteCurrentProject")
  /\ UNCHANGED relocFrom

\* deleteCurrentProject, lines 338-341: after the await.
DeleteCurrentProjectResume ==
  \E updatedProjects \in deletePending :
    /\ deletePending' = {}
    /\ showDeleteProjectConfirm' = FALSE
    /\ IF Len(updatedProjects) > 0
       THEN /\ LoadProject(updatedProjects[Len(updatedProjects)])
            /\ relocFrom' = Null
       ELSE /\ currentProject' = Null
            /\ UNCHANGED <<markers, globalJournalEntries, scale, pan,
                           relocatingMarker, imageLoaded, relocFrom>>
    /\ Effects(projects, canvas, imgComplete, TRUE, TRUE)
    /\ UNCHANGED <<tool, dialogVars, showDeleteMarkerConfirm, showSidebar,
                   isPanning, panStart, now, loadPending, uploadPending>>
    /\ Stamp(IF Len(updatedProjects) > 0 THEN "loadProject"
             ELSE "deleteCurrentProject")

\* The <img>'s onLoad, lines 511-519: the current image has been decoded.
ImageOnLoad ==
  /\ currentProject # Null
  /\ ~imgComplete
  /\ UNCHANGED <<currentProject, markers, globalJournalEntries, tool,
                 dialogVars, confirmVars, showSidebar, viewVars,
                 relocatingMarker, now, asyncVars>>
  /\ imageLoaded' = TRUE
  /\ Effects(projects,
             [canvas EXCEPT !.width = NaturalWidth(currentProject.image),
                            !.height = NaturalHeight(currentProject.image),
                            !.glyphs = <<>>],
             TRUE, FALSE, ~imageLoaded)
  /\ Stamp("onLoad")
  /\ UNCHANGED relocFrom

\* Time passes: Date.now() returns a later value.
Tick ==
  /\ now < MaxClock
  /\ now' = now + 1
  /\ NoEffects
  /\ UNCHANGED <<currentProject, markers, globalJournalEntries, tool,
                 dialogVars, confirmVars, showSidebar, viewVars,
                 relocatingMarker, imageLoaded, asyncVars>>
  /\ Stamp("tick")
  /\ UNCHANGED relocFrom


(* ------------------------------ pointer -------------------------------- *)

\* Where the page's layout puts the canvas while the view is reset.
ViewLeft == 10
ViewTop == 10

\* The pointer events the canvas receives: clientX and clientY.
ClientPoints == { <<40, 50>>, <<70, 90>> }

PointerEvents == { [clientX |-> c[1], clientY |-> c[2]] : c \in ClientPoints }

\* canvas.getBoundingClientRect(), line 358: where the layout puts the
\* canvas.  Its box is as large as the bitmap, scaled about its centre by
\* `scale` and translated by `pan` (line 506); with the view reset its
\* corner is at (ViewLeft, ViewTop).  Lengths are whole pixels.
BoundingRect(cv, sc, pn) ==
  LET w == (cv.width * sc) \div 10
      h == (cv.height * sc) \div 10
  IN [left |-> ViewLeft + pn.x + (cv.width - w) \div 2,
      top |-> ViewTop + pn.y + (cv.height - h) \div 2,
      width |-> w, height |-> h]

\* A conversion that lacks the factors scaleX and scaleY of lines 359-361.
GetPointerPosUnscaled(e, rect, cv) ==
  [x |-> e.clientX - rect.left, y |-> e.clientY - rect.top,
   clientX |-> e.clientX, clientY |-> e.clientY]

\* getPointerPos, lines 354-362.
GetPointerPos(e, rect, cv) ==
  [x |-> ((e.clientX - rect.left) * cv.width) \div rect.width,
   y |-> ((e.clientY - rect.top) * cv.height) \div rect.height,
   clientX |-> e.clientX, clientY |-> e.clientY]

PointerPos(e) == GetPointerPos(e, BoundingRect(canvas, scale, pan), canvas)

\* A test that takes a press exactly 50 away as far.
FarFromRelocatingInclusive(rm, pos) ==
  Dist2(rm.x, rm.y, pos.x, pos.y) >= DRAG_RADIUS * DRAG_RADIUS

\* Line 370: Math.sqrt(dx*dx + dy*dy) > 50.
FarFromRelocating(rm, pos) ==
  Dist2(rm.x, rm.y, pos.x, pos.y) > DRAG_RADIUS * DRAG_RADIUS

\* A test that takes a marker exactly 30 away as hit.
IsHitInclusive(m, pos) == Dist2(m.x, m.y, pos.x, pos.y) <= HIT_RADIUS * HIT_RADIUS

\* Line 396: Math.sqrt(dx*dx + dy*dy) < 30.
IsHit(m, pos) == Dist2(m.x, m.y, pos.x, pos.y) < HIT_RADIUS * HIT_RADIUS

\* Line 396: markers.find(...).
HitMarker(ms, pos) ==
  FindFirst(ms, { i \in 1..Len(ms) : IsHit(ms[i], pos) })

\* Lines 379-381: markers.map(m => m.id === updated.id ? updated : m).
ReplaceById(ms, id, by) ==
  [i \in 1..Len(ms) |-> IF ms[i].id = id THEN by ELSE ms[i]]

\* openMarkerDialog, lines 407-409.
OpenMarkerDialog(marker) ==
  /\ selectedItem' = marker
  /\ noteText' = marker.label
  /\ noteDescription' = marker.description
  /\ notePhotos' = marker.photos
  /\ markerJournalEntries' = marker.journalEntries
  /\ linkedPlant' = marker.linkedPlant
  /\ showNoteDialog' = TRUE

\* A test that takes every tool as the pan tool.
AnyToolPans(t) == t \in {"pan", "marker"}

\* Line 371: tool === 'pan'.
PanTool(t) == t = "pan"

\* handleStart, lines 364-372 (mousedown, touchstart).
HandleStart(e) ==
    LET pos == PointerPos(e)
        startPan == /\ isPanning' = TRUE
                    /\ panStart' = [x |-> pos.clientX - pan.x, y |-> pos.clientY - pan.y]
    IN /\ EditorShown
       /\ IF relocatingMarker # Null
          THEN IF FarFromRelocating(relocatingMarker, pos)
               THEN startPan
               ELSE UNCHANGED <<isPanning, panStart>>
          ELSE IF PanTool(tool)
               THEN startPan
               ELSE UNCHANGED <<isPanning, panStart>>
       /\ NoEffects
       /\ UNCHANGED <<currentProject, markers, globalJournalEntries, tool,
                      dialogVars, confirmVars, showSidebar, scale, pan,
                      relocatingMarker, imageLoaded, now, asyncVars>>
       /\ Stamp("handleStart")
       /\ relocFrom' = IF relocFrom = Null \/ relocatingMarker = Null THEN relocFrom
                       ELSE [relocFrom EXCEPT
                               !.press = IF FarFromRelocating(relocatingMarker, pos)
                                         THEN "far" ELSE "near"]

\* A pan that moves against the pointer.
PannedBackwards(e, start) == [x |-> start.x - e.clientX, y |-> start.y - e.clientY]

\* Line 386: { x: clientX - panStart.x, y: clientY - panStart.y }.
Panned(e, start) == [x |-> e.clientX - start.x, y |-> e.clientY - start.y]

\* A test that lacks line 377's `!isPanning`.
DraggingWhilePanning(rm, panning) == rm # Null

\* Line 377: relocatingMarker && !isPanning.
Dragging(rm, panning) == rm # Null /\ ~panning

\* handleMove, lines 374-388 (mousemove, touchmove).
HandleMove(e) ==
    LET pos == PointerPos(e)
    IN /\ EditorShown
       /\ UNCHANGED <<currentProject, globalJournalEntries, tool, dialogVars,
                      confirmVars, showSidebar, scale, isPanning, panStart,
                      imageLoaded, now, asyncVars>>
       /\ IF Dragging(relocatingMarker, isPanning)
          THEN LET updated == [relocatingMarker EXCEPT !.x = pos.x, !.y = pos.y]
               IN /\ relocatingMarker' = updated
                  /\ markers' = ReplaceById(markers, updated.id, updated)
                  /\ pan' = pan
                  /\ Effects(projects, canvas, imgComplete, TRUE, TRUE)
                  /\ relocFrom' = IF relocFrom = Null THEN Null
                                  ELSE [relocFrom EXCEPT
                                          !.p = [x |-> pos.x, y |-> pos.y]]
          ELSE IF isPanning
          THEN /\ pan' = Panned(e, panStart)
               /\ pan'.x \in -MaxPan..MaxPan
               /\ pan'.y \in -MaxPan..MaxPan
               /\ NoEffects
               /\ UNCHANGED <<markers, relocatingMarker, relocFrom>>
          ELSE /\ NoEffects
               /\ UNCHANGED <<markers, relocatingMarker, pan, relocFrom>>
       /\ Stamp("handleMove")

\* A handleEnd that also commits the pending relocation.
HandleEndCommitting ==
  /\ EditorShown
  /\ isPanning' = FALSE
  /\ relocatingMarker' = Null
  /\ UNCHANGED <<currentProject, markers, globalJournalEntries, tool,
                 dialogVars, confirmVars, showSidebar, scale, pan, panStart,
                 imageLoaded, now, asyncVars>>
  /\ Effects(projects, canvas, imgComplete, FALSE, TRUE)
  /\ Stamp("handleEnd")
  /\ relocFrom' = IF relocFrom = Null THEN Null
                  ELSE [relocFrom EXCEPT !.press = "none"]

\* handleEnd, line 390 (mouseup, mouseleave, touchend).
HandleEnd ==
  /\ EditorShown
  /\ isPanning' = FALSE
  /\ NoEffects
  /\ UNCHANGED <<currentProject, markers, globalJournalEntries, tool,
                 dialogVars, confirmVars, showSidebar, scale, pan, panStart,
                 relocatingMarker, imageLoaded, now, asyncVars>>
  /\ Stamp("handleEnd")
  /\ relocFrom' = IF relocFrom = Null THEN Null
                  ELSE [relocFrom EXCEPT !.press = "none"]

\* A test that lets every click through.
ClickNeverIgnored(rm) == FALSE

\* Line 394: if (relocatingMarker) return.
ClickIgnored(rm) == rm # Null

\* handleCanvasClick, lines 392-402.
HandleCanvasClick(e) ==
    LET pos == PointerPos(e)
        hitMarker == HitMarker(markers, pos)
        newMarker == NewMarker(now, pos.x, pos.y, Len(markers) + 1)
    IN /\ EditorShown
       /\ UNCHANGED <<currentProject, globalJournalEntries, tool, confirmVars,
                      showSidebar, viewVars, relocatingMarker, imageLoaded,
                      now, asyncVars>>
       /\ IF ClickIgnored(relocatingMarker)
          THEN /\ NoEffects
               /\ UNCHANGED <<markers, dialogVars>>
          ELSE IF hitMarker # Null /\ tool # "pan"
          THEN /\ OpenMarkerDialog(hitMarker)
               /\ NoEffects
               /\ UNCHANGED markers
          ELSE IF tool = "marker" /\ hitMarker = Null
          THEN /\ Len(markers) < MaxMarkers
               /\ markers' = Append(markers, newMarker)
               /\ OpenMarkerDialog(newMarker)
               /\ Effects(projects, canvas, imgComplete, TRUE, TRUE)
          ELSE /\ NoEffects
               /\ UNCHANGED <<markers, dialogVars>>
       /\ Stamp("handleCanvasClick")
       /\ UNCHANGED relocFrom

\* The tool buttons, lines 533-534, shown while no relocation is pending.
SetTool ==
  \E t \in {"pan", "marker"} :
    /\ EditorShown
    /\ relocatingMarker = Null
    /\ tool' = t
    /\ NoEffects
    /\ UNCHANGED <<currentProject, markers, globalJournalEntries, dialogVars,
                   confirmVars, showSidebar, viewVars, relocatingMarker,
                   imageLoaded, now, asyncVars>>
    /\ Stamp("setTool")
    /\ UNCHANGED relocFrom

(* -------------------------------- view --------------------------------- *)

\* An updater that lacks line 404's Math.min(5, ...).
ZoomedWithoutUpperBound(prev, delta) == Max(MIN_SCALE, prev + delta)

\* handleZoom's updater, line 404: Math.max(0.2, Math.min(5, prev + delta)).
Zoomed(prev, delta) == Max(MIN_SCALE, Min(MAX_SCALE, prev + delta))

\* handleZoom, line 404, from the buttons of lines 540-541.
HandleZoom(delta) ==
  /\ EditorShown
  /\ scale' = Zoomed(scale, delta)
  /\ NoEffects
  /\ UNCHANGED <<currentProject, markers, globalJournalEntries, tool,
                 dialogVars, confirmVars, showSidebar, pan, isPanning,
                 panStart, relocatingMarker, imageLoaded, now, asyncVars>>
  /\ Stamp("handleZoom")
  /\ UNCHANGED relocFrom

\* The Reset View button, line 542.
ResetView ==
  /\ EditorShown
  /\ scale' = 10
  /\ pan' = Origin
  /\ NoEffects
  /\ UNCHANGED <<currentProject, markers, globalJournalEntries, tool,
                 dialogVars, confirmVars, showSidebar, isPanning, panStart,
                 relocatingMarker, imageLoaded, now, asyncVars>>
  /\ Stamp("resetView")
  /\ UNCHANGED relocFrom

(* --------------------- sidebar and detail editor ----------------------- *)

\* The header's list button, line 493.
ToggleSidebar ==
  /\ EditorShown
  /\ showSidebar' = ~showSidebar
  /\ NoEffects
  /\ UNCHANGED <<currentProject, markers, globalJournalEntries, tool,
                 dialogVars, confirmVars, viewVars, relocatingMarker,
                 imageLoaded, now, asyncVars>>
  /\ Stamp("toggleSidebar")
  /\ UNCHANGED relocFrom

\* A row of the sidebar's marker list, line 564.
SidebarOpenMarker ==
  \E i \in 1..Len(markers) :
    /\ showSidebar
    /\ ~Covered
    /\ OpenMarkerDialog(markers[i])
    /\ showSidebar' = FALSE
    /\ NoEffects
    /\ UNCHANGED <<currentProject, markers, globalJournalEntries, tool,
                   confirmVars, viewVars, relocatingMarker, imageLoaded, now,
                   asyncVars>>
    /\ Stamp("openMarkerDialog")
    /\ UNCHANGED relocFrom

\* What the user may type into the name field.
NoteTexts == {""}

\* The name field of the detail editor, lines 609 and 164.
SetNoteText ==
  \E t \in NoteTexts :
    /\ showNoteDialog
    /\ ~ConfirmOpen
    /\ noteText' = t
    /\ NoEffects
    /\ UNCHANGED <<currentProject, markers, globalJournalEntries, tool,
                   selectedItem, showNoteDialog, noteDescription, notePhotos,
                   markerJournalEntries, linkedPlant, confirmVars,
                   showSidebar, viewVars, relocatingMarker, imageLoaded, now,
                   asyncVars>>
    /\ Stamp("setNoteText")
    /\ UNCHANGED relocFrom

\* The detail editor's X, line 605.
CloseNoteDialog ==
  /\ showNoteDialog
  /\ ~ConfirmOpen
  /\ showNoteDialog' = FALSE
  /\ NoEffects
  /\ UNCHANGED <<currentProject, markers, globalJournalEntries, tool,
                 selectedItem, noteText, noteDescription, notePhotos,
                 markerJournalEntries, linkedPlant, confirmVars,
                 showSidebar, viewVars, relocatingMarker, imageLoaded, now,
                 asyncVars>>
  /\ Stamp("closeNoteDialog")
  /\ UNCHANGED relocFrom

\* Line 418: the marker saveMarkerDetails stores for m.
WithDetails(m) ==
  [m EXCEPT !.label = noteText, !.description = noteDescription,
            !.photos = notePhotos, !.journalEntries = markerJournalEntries,
            !.linkedPlant = linkedPlant]

\* saveMarkerDetails, line 418, from the editor's Save (line 665).
SaveMarkerDetails ==
  /\ showNoteDialog
  /\ ~ConfirmOpen
  /\ UNCHANGED <<currentProject, globalJournalEntries, tool, noteText,
                 noteDescription, notePhotos, markerJournalEntries,
                 linkedPlant, confirmVars, showSidebar, viewVars,
                 relocatingMarker, imageLoaded, now, asyncVars>>
  /\ markers' = [i \in 1..Len(markers) |->
                   IF markers[i].id = selectedItem.id
                   THEN WithDetails(markers[i]) ELSE markers[i]]
  /\ showNoteDialog' = FALSE
  /\ selectedItem' = Null
  /\ Effects(projects, canvas, imgComplete, TRUE, TRUE)
  /\ Stamp("saveMarkerDetails")
  /\ relocFrom' = Null

(* ------------------------------ journals ------------------------------- *)

\* What the user may have typed into a journal's text area (lines 580 and
\* 647) and attached to it (lines 429 and 432) when Add Entry is pressed.
Drafts ==
  { [text |-> "", photos |-> <<>>], [text |-> " ", photos |-> <<>>],
    [text |-> "rain", photos |-> <<>>], [text |-> "", photos |-> <<Inline(4)>>] }

RECURSIVE TrimStart(_)
TrimStart(s) ==
  IF Len(s) > 0 /\ SubSeq(s, 1, 1) = " "
  THEN TrimStart(SubSeq(s, 2, Len(s))) ELSE s

RECURSIVE TrimEnd(_)
TrimEnd(s) ==
  IF Len(s) > 0 /\ SubSeq(s, Len(s), Len(s)) = " "
  THEN TrimEnd(SubSeq(s, 1, Len(s) - 1)) ELSE s

\* String.prototype.trim, on texts of spaces and letters.
Trim(s) == TrimEnd(TrimStart(s))

\* Lines 430 and 433: text.trim() || photos.length > 0.
WorthAdding(text, photos) == Trim(text) # "" \/ Len(photos) > 0

\* A journal that puts the new entry last.
Appended(entry, entries) == Append(entries, entry)

\* Lines 430 and 433: [entry, ...entries].
Prepended(entry, entries) == <<entry>> \o entries

\* Lines 430 and 433: the entry literal.  Date.now() is read twice, for the
\* id and then for the timestamp.
NewEntry(id, timestamp, text, photos) ==
  [id |-> id, timestamp |-> timestamp, text |-> text, photos |-> photos]

\* Lines 431 and 434: entries.filter(e => e.id !== id).
EntriesWithout(entries, id) == SelectSeq(entries, LAMBDA e : e.id # id)

\* addGlobalJournalEntry, line 433, from the journal panel's Add Entry
\* (line 590) with `text` typed and `photos` attached; the draft is cleared.
AddGlobalJournalEntry(text, photos) ==
  /\ EditorShown
  /\ Len(globalJournalEntries) < MaxEntries
  /\ UNCHANGED <<currentProject, markers, tool, dialogVars, confirmVars,
                 showSidebar, viewVars, relocatingMarker, imageLoaded,
                 asyncVars>>
  /\ IF WorthAdding(text, photos)
     THEN \E t \in {now, now + 1} :
            /\ t <= MaxClock
            /\ now' = t
            /\ globalJournalEntries' =
                 Prepended(NewEntry(now, t, text, photos), globalJournalEntries)
            /\ Effects(projects, canvas, imgComplete, TRUE, FALSE)
     ELSE /\ UNCHANGED <<globalJournalEntries, now>>
          /\ NoEffects
  /\ Stamp("addGlobalJournalEntry")
  /\ UNCHANGED relocFrom

\* deleteGlobalJournalEntry, line 434, from an entry of the journal panel
\* (line 595).
DeleteGlobalJournalEntry(id) ==
  /\ EditorShown
  /\ \E i \in 1..Len(globalJournalEntries) : globalJournalEntries[i].id = id
  /\ UNCHANGED <<currentProject, markers, tool, dialogVars, confirmVars,
                 showSidebar, viewVars, relocatingMarker, imageLoaded, now,
                 asyncVars>>
  /\ globalJournalEntries' = EntriesWithout(globalJournalEntries, id)
  /\ Effects(projects, canvas, imgComplete, TRUE, FALSE)
  /\ Stamp("deleteGlobalJournalEntry")
  /\ UNCHANGED relocFrom

\* addMarkerJournalEntry, line 430, from the detail editor's Add Entry
\* (line 657) with `text` typed and `photos` attached; the draft is cleared.
AddMarkerJournalEntry(text, photos) ==
  /\ showNoteDialog
  /\ ~ConfirmOpen
  /\ Len(markerJournalEntries) < MaxEntries
  /\ UNCHANGED <<currentProject, markers, globalJournalEntries, tool,
                 selectedItem, showNoteDialog, noteText, noteDescription,
                 notePhotos, linkedPlant, confirmVars, showSidebar, viewVars,
                 relocatingMarker, imageLoaded, asyncVars>>
  /\ IF WorthAdding(text, photos)
     THEN \E t \in {now, now + 1} :
            /\ t <= MaxClock
            /\ now' = t
            /\ markerJournalEntries' =
                 Prepended(NewEntry(now, t, text, photos), markerJournalEntries)
     ELSE UNCHANGED <<markerJournalEntries, now>>
  /\ NoEffects
  /\ Stamp("addMarkerJournalEntry")
  /\ UNCHANGED relocFrom

\* deleteMarkerJournalEntry, line 431, from an entry of the detail editor
\* (line 661).
DeleteMarkerJournalEntry(id) ==
  /\ showNoteDialog
  /\ ~ConfirmOpen
  /\ \E i \in 1..Len(markerJournalEntries) : markerJournalEntries[i].id = id
  /\ UNCHANGED <<currentProject, markers, globalJournalEntries, tool,
                 selectedItem, showNoteDialog, noteText, noteDescription,
                 notePhotos, linkedPlant, confirmVars, showSidebar, viewVars,
                 relocatingMarker, imageLoaded, now, asyncVars>>
  /\ markerJournalEntries' = EntriesWithout(markerJournalEntries, id)
  /\ NoEffects
  /\ Stamp("deleteMarkerJournalEntry")
  /\ UNCHANGED relocFrom

\* Line 413: projects.find(current)?.markers.find(m => m.id === id), the
\* record of marker `id` in the in-memory project list; Null if there is none.
Original(id) ==
  LET project == IF currentProject = Null THEN Null
                 ELSE FindFirst(projects, { i \in 1..Len(projects) :
                                               projects[i].id = currentProject.id })
  IN IF project = Null THEN Null
     ELSE FindFirst(project.markers,
                    { i \in 1..Len(project.markers) : project.markers[i].id = id })

\* The history a relocation of `item` starts with; Null if the item is not
\* in the collection or has no persisted record.
Persisted(item) ==
  LET m == Original(item.id)
      places == { i \in 1..Len(markers) : markers[i] = item }
  IN IF m = Null \/ places = {} THEN Null
     ELSE [index |-> CHOOSE i \in places : \A k \in places : i <= k,
           at |-> markers, x |-> m.x, y |-> m.y, p |-> Null, press |-> "none"]

\* startRelocation, line 410, from the editor's Relocate (line 666).
StartRelocation ==
  /\ showNoteDialog
  /\ ~ConfirmOpen
  /\ UNCHANGED <<currentProject, markers, globalJournalEntries, tool,
                 noteText, noteDescription, notePhotos, markerJournalEntries,
                 linkedPlant, confirmVars, showSidebar, viewVars,
                 imageLoaded, now, asyncVars>>
  /\ IF selectedItem # Null
     THEN /\ relocatingMarker' = selectedItem
          /\ showNoteDialog' = FALSE
          /\ selectedItem' = Null
          /\ Effects(projects, canvas, imgComplete, FALSE, TRUE)
          /\ relocFrom' = Persisted(selectedItem)
     ELSE /\ NoEffects
          /\ UNCHANGED <<relocatingMarker, showNoteDialog, selectedItem, relocFrom>>
  /\ Stamp("startRelocation")

\* A finishRelocation that answers a call with no relocation pending by
\* resetting the view.
FinishRelocationCallResettingView(save) ==
  /\ relocatingMarker = Null
  /\ scale' = 10
  /\ pan' = Origin
  /\ NoEffects
  /\ UNCHANGED <<currentProject, markers, globalJournalEntries, tool,
                 dialogVars, confirmVars, showSidebar, isPanning, panStart,
                 relocatingMarker, imageLoaded, now, asyncVars>>
  /\ Stamp("finishRelocation")
  /\ UNCHANGED relocFrom

\* finishRelocation, lines 411-417, called in any state.  With no relocation
\* pending, line 412's test fails and setRelocatingMarker(null) sets the
\* value the cell has.
FinishRelocationCall(save) ==
  IF relocatingMarker = Null
  THEN /\ NoEffects
       /\ UNCHANGED <<currentProject, markers, globalJournalEntries, tool,
                      dialogVars, confirmVars, showSidebar, viewVars,
                      relocatingMarker, imageLoaded, now, asyncVars>>
       /\ Stamp("finishRelocation")
       /\ UNCHANGED relocFrom
  ELSE LET original == Original(relocatingMarker.id)
       IN /\ EditorShown
          /\ UNCHANGED <<currentProject, globalJournalEntries, tool, dialogVars,
                         confirmVars, showSidebar, viewVars, imageLoaded, now,
                         asyncVars>>
          /\ relocatingMarker' = Null
          /\ IF ~save /\ original # Null
             THEN /\ markers' = ReplaceById(markers, relocatingMarker.id, original)
                  /\ Effects(projects, canvas, imgComplete, TRUE, TRUE)
             ELSE /\ markers' = markers
                  /\ Effects(projects, canvas, imgComplete, FALSE, TRUE)
          /\ Stamp(IF save THEN "finishRelocation(true)" ELSE "finishRelocation(false)")
          /\ relocFrom' = Null

\* finishRelocation from the relocation bar, lines 525-530, which is shown
\* while a relocation is pending (save = FALSE is the X, save = TRUE the
\* check mark).
FinishRelocation(save) ==
  /\ relocatingMarker # Null
  /\ FinishRelocationCall(save)

\* The editor's trash button, line 667.
RequestDeleteMarker ==
  /\ showNoteDialog
  /\ ~ConfirmOpen
  /\ showDeleteMarkerConfirm' = TRUE
  /\ NoEffects
  /\ UNCHANGED <<currentProject, markers, globalJournalEntries, tool,
                 dialogVars, showDeleteProjectConfirm, showSidebar, viewVars,
                 relocatingMarker, imageLoaded, now, asyncVars>>
  /\ Stamp("requestDeleteMarker")
  /\ UNCHANGED relocFrom

\* The marker ConfirmDialog's Cancel, line 694.
CancelDeleteMarker ==
  /\ showDeleteMarkerConfirm
  /\ showDeleteMarkerConfirm' = FALSE
  /\ NoEffects
  /\ UNCHANGED <<currentProject, markers, globalJournalEntries, tool,
                 dialogVars, showDeleteProjectConfirm, showSidebar, viewVars,
                 relocatingMarker, imageLoaded, now, asyncVars>>
  /\ Stamp("cancelDeleteMarker")
  /\ UNCHANGED relocFrom

\* deleteMarker, line 419, from the marker ConfirmDialog's Delete (line 694).
DeleteMarker ==
  /\ showDeleteMarkerConfirm
  /\ UNCHANGED <<currentProject, globalJournalEntries, tool, noteText,
                 noteDescription, notePhotos, markerJournalEntries,
                 linkedPlant, showDeleteProjectConfirm, showSidebar,
                 viewVars, relocatingMarker, imageLoaded, now, asyncVars>>
  /\ markers' = SelectSeq(markers, LAMBDA m : m.id # selectedItem.id)
  /\ showNoteDialog' = FALSE
  /\ selectedItem' = Null
  /\ showDeleteMarkerConfirm' = FALSE
  /\ Effects(projects, canvas, imgComplete, TRUE, TRUE)
  /\ Stamp("deleteMarker")
  /\ relocFrom' = Null

(* --------------------------- specifications ---------------------------- *)

(* ------------------------ server.js, the routes ------------------------ *)

\* The references a project list holds: base images, marker photos, photos
\* of marker journal entries and of garden journal entries.
PhotosOf(entries) ==
  UNION { { entries[i].photos[k] : k \in 1..Len(entries[i].photos) } :
            i \in 1..Len(entries) }

ImagesOf(ps) ==
  UNION { {ps[i].image}
          \cup PhotosOf(ps[i].globalJournalEntries)
          \cup UNION { { ps[i].markers[k].photos[n] :
                           n \in 1..Len(ps[i].markers[k].photos) }
                       \cup PhotosOf(ps[i].markers[k].journalEntries) :
                       k \in 1..Len(ps[i].markers) } :
          i \in 1..Len(ps) }

\* The references for which processImage reaches its fs.writeFile (line 37).
Writes(ps) ==
  { img \in ImagesOf(ps) : img # Null /\ img.inline /\ Matches(img) }

\* The references a request body may hold: none, a stored path, what the
\* component sends, a PNG and a file of type "jpg" with the same bytes, an
\* SVG that is not base64, and a type with a digit.
ImageValues ==
  { Null, Stored(1), Inline(3), DataUri("png", TRUE, 3), DataUri("jpg", TRUE, 3),
    DataUri("svg+xml", FALSE, 5), DataUri("jp2", TRUE, 6) }

\* A project with `image` as base image and `photo` as photo of its marker,
\* of the marker's journal entry and of its garden journal entry.
ServerProject(id, image, photo) ==
  [id |-> id, name |-> "S", image |-> image,
   markers |-> << [NewMarker(1, 18, 24, 1) EXCEPT
                     !.photos = <<photo>>,
                     !.journalEntries = << NewEntry(3, 3, "sown", <<photo>>) >>] >>,
   globalJournalEntries |-> << NewEntry(4, 4, "rain", <<photo, image>>) >>]

\* The bodies of the POST requests: no project, a project with one of the
\* references in every place, and projects with two of them.
ServerBodies ==
  { <<>> }
  \cup { <<ServerProject(1, a, a)>> : a \in ImageValues }
  \cup { <<ServerProject(1, Inline(3), Stored(1))>>,
         <<ServerProject(1, Stored(1), DataUri("png", TRUE, 3))>>,
         <<ServerProject(1, DataUri("jpg", TRUE, 3), Inline(3))>> }

\* POST /api/projects, lines 82-84: a request arrives and cleanProjectData
\* runs up to its first fs.writeFile of an image or, when there is none, to
\* the fs.writeFile of the data file (an await of a value that is no pending
\* promise lets no other request in).
PostArrives(body) ==
  /\ server.arrived < MaxRequests
  /\ server' =
       [server EXCEPT
          !.arrived = @ + 1,
          !.last = body,
          !.jobs = @ \cup
            { [no |-> server.arrived + 1, body |-> body,
               phase |-> IF Writes(body) = {} THEN "file" ELSE "images",
               failed |-> {},
               overlapped |-> Writes(body) = {}
                              /\ \E j \in server.jobs : j.phase = "file",
               data |-> IF Writes(body) = {}
                        THEN CleanProjectDataWhen(body, {}) ELSE body] }]
  /\ UNCHANGED <<programState, now, lastOp, relocFrom>>
  /\ drawOps' = <<>>

\* cleanProjectData, lines 45-73: the image files of a request have been
\* written, but for those of `failed`, and the fs.writeFile of the data file
\* starts.
ImagesWritten ==
  \E job \in server.jobs :
    /\ job.phase = "images"
    /\ \E failed \in SUBSET Writes(job.body) :
         LET others == server.jobs \ {job}
             overlaps == \E j \in others : j.phase = "file"
             marked == { IF j.phase = "file" THEN [j EXCEPT !.overlapped = TRUE]
                         ELSE j : j \in others }
         IN server' =
              [server EXCEPT
                 !.jobs = marked \cup
                   { [job EXCEPT !.phase = "file", !.failed = failed,
                                 !.overlapped = overlaps,
                                 !.data = CleanProjectDataWhen(job.body, failed)] }]
    /\ UNCHANGED <<programState, now, lastOp, relocFrom>>
    /\ drawOps' = <<>>

\* Lines 85-86: the fs.writeFile of the data file has completed and the
\* cleaned list is the response.  Two writes of the file that overlap may
\* leave text that is no JSON.
DataFileWritten ==
  \E job \in server.jobs :
    /\ job.phase = "file"
    /\ \E content \in {FileOf(job.data)}
                       \cup (IF job.overlapped THEN {Garbled} ELSE {}) :
         server' = [server EXCEPT
                      !.file = content,
                      !.jobs = @ \ {job},
                      !.done = [body |-> job.body, data |-> job.data,
                                failed |-> job.failed]]
    /\ UNCHANGED <<programState, now, lastOp, relocFrom>>
    /\ drawOps' = <<>>

\* Lines 87-90: the fs.writeFile of the data file is rejected and the
\* response has status 500; the file is as it was, or cut short.
DataFileWriteFails ==
  \E job \in server.jobs :
    /\ job.phase = "file"
    /\ \E content \in {server.file, Garbled} :
         server' = [server EXCEPT !.file = content, !.jobs = @ \ {job},
                                  !.failed = TRUE]
    /\ UNCHANGED <<programState, now, lastOp, relocFrom>>
    /\ drawOps' = <<>>

\* GET /api/projects, lines 75-80: the parsed data file, or [] when it
\* cannot be read or parsed.
GetProjects ==
  /\ server.arrived > 0
  /\ server' = [server EXCEPT
                  !.got = IF server.file.json THEN server.file.projects ELSE <<>>]
  /\ UNCHANGED <<programState, now, lastOp, relocFrom>>
  /\ drawOps' = <<>>

(* ---------------------------- specifications --------------------------- *)

\* Each specification runs the handlers of one part of the interface on one
\* content of the data file; the handlers are the same in all of them.

\* Relocation: the data file holds ProjectA and ProjectB; the sidebar, the
\* detail editor's Relocate and trash buttons, drags and the relocation bar,
\* with saveData's requests and their responses.
NextRelocate ==
  \/ LoadDataResponse
  \/ ImageOnLoad
  \/ SaveResponse
  \/ SaveFail
  \/ \E e \in PointerEvents : HandleMove(e)
  \/ ToggleSidebar
  \/ SidebarOpenMarker
  \/ CloseNoteDialog
  \/ StartRelocation
  \/ FinishRelocation(TRUE)
  \/ FinishRelocation(FALSE)
  \/ RequestDeleteMarker
  \/ CancelDeleteMarker
  \/ DeleteMarker

SpecRelocate == InitOn({<<ProjectA, ProjectB>>}) /\ [][NextRelocate]_vars

\* Markers: the data file holds ProjectB, which has no marker yet; the
\* tool buttons, clicks on the canvas, the detail editor's name field, Save,
\* Relocate and trash buttons, drags, the relocation bar and the clock.
NextMarkers ==
  \/ LoadDataResponse
  \/ ImageOnLoad
  \/ SaveResponse
  \/ SaveFail
  \/ Tick
  \/ SetTool
  \/ \E e \in PointerEvents : HandleCanvasClick(e)
  \/ \E e \in PointerEvents : HandleMove(e)
  \/ SetNoteText
  \/ CloseNoteDialog
  \/ SaveMarkerDetails
  \/ StartRelocation
  \/ FinishRelocation(TRUE)
  \/ FinishRelocation(FALSE)
  \/ RequestDeleteMarker
  \/ CancelDeleteMarker
  \/ DeleteMarker

SpecMarkers == InitOn({<<ProjectB>>}) /\ [][NextMarkers]_vars

\* Hit-testing: the data file holds ProjectA, whose two markers are 20 apart;
\* clicks at HitEvents with either tool, the detail editor's X and trash
\* buttons.
HitEvents ==
  { [clientX |-> 40, clientY |-> 50],    \* (30,40): on Plant 2, 20 from Plant 1
    [clientX |-> 46, clientY |-> 58],    \* (36,48): exactly 30 from Plant 1
    [clientX |-> 70, clientY |-> 90] }   \* (60,80): 50 and more from both

NextHit ==
  \/ LoadDataResponse
  \/ ImageOnLoad
  \/ SetTool
  \/ \E e \in HitEvents : HandleCanvasClick(e)
  \/ CloseNoteDialog
  \/ RequestDeleteMarker
  \/ CancelDeleteMarker
  \/ DeleteMarker

SpecHit == InitOn({<<ProjectA, ProjectB>>}) /\ [][NextHit]_vars

\* Switching: the data file holds ProjectA and ProjectB; deleting the current
\* project loads the other one, after zooming out, after a relocation was
\* started from the sidebar, after presses at PressEvent and moves at
\* MoveEvent that drag the marker or pan the view.
PressEvent == [clientX |-> 40, clientY |-> 50]
MoveEvent == [clientX |-> 70, clientY |-> 90]

NextSwitch ==
  \/ LoadDataResponse
  \/ ImageOnLoad
  \/ HandleZoom(-ZOOM_STEP)
  \/ HandleStart(PressEvent)
  \/ HandleMove(MoveEvent)
  \/ ToggleSidebar
  \/ SidebarOpenMarker
  \/ StartRelocation
  \/ RequestDeleteProject
  \/ CancelDeleteProject
  \/ DeleteCurrentProject
  \/ DeleteCurrentProjectResume

SpecSwitch == InitOn({<<ProjectA, ProjectB>>}) /\ [][NextSwitch]_vars

\* Zoom: the data file holds ProjectA and ProjectB; the zoom and Reset View
\* buttons, and the project switch that deleting the current project makes.
NextZoom ==
  \/ LoadDataResponse
  \/ ImageOnLoad
  \/ HandleZoom(ZOOM_STEP)
  \/ HandleZoom(-ZOOM_STEP)
  \/ ResetView
  \/ RequestDeleteProject
  \/ CancelDeleteProject
  \/ DeleteCurrentProject
  \/ DeleteCurrentProjectResume

SpecZoom == InitOn({<<ProjectA, ProjectB>>}) /\ [][NextZoom]_vars

\* The project list: the data file is empty or holds ProjectA and ProjectB;
\* imports, deletions of the current project, the image's load event, the
\* clock, and saveData's requests with their responses.
NextLifecycle ==
  \/ LoadDataResponse
  \/ LoadDataFail
  \/ ImageOnLoad
  \/ SaveResponse
  \/ SaveFail
  \/ Tick
  \/ HandleImageUpload
  \/ ImageUploadDone
  \/ RequestDeleteProject
  \/ CancelDeleteProject
  \/ DeleteCurrentProject
  \/ DeleteCurrentProjectResume

SpecLifecycle == Init /\ [][NextLifecycle]_vars

\* The view: the data file holds ProjectA and ProjectB; the zoom-out and
\* Reset View buttons, presses at either point, moves at MoveEvent and
\* releases on the canvas, and a relocation started from the sidebar that
\* stays pending.
NextView ==
  \/ LoadDataResponse
  \/ ImageOnLoad
  \/ HandleZoom(-ZOOM_STEP)
  \/ ResetView
  \/ \E e \in PointerEvents : HandleStart(e)
  \/ HandleMove(MoveEvent)
  \/ HandleEnd
  \/ ToggleSidebar
  \/ SidebarOpenMarker
  \/ StartRelocation

SpecView == InitOn({<<ProjectA, ProjectB>>}) /\ [][NextView]_vars

\* Gestures: the data file holds ProjectA and ProjectB; the tool buttons,
\* presses at GestureEvents, moves at PointerEvents and releases on the
\* canvas, and a relocation started from the sidebar that stays pending.
GestureEvents ==
  { [clientX |-> 40, clientY |-> 50],    \* (30,40): 20 from Plant 1, on Plant 2
    [clientX |-> 70, clientY |-> 90],    \* (60,80): exactly 50 from (30,40)
    [clientX |-> 110, clientY |-> 50] }  \* (100,40): more than 50 from all these

NextPointer ==
  \/ LoadDataResponse
  \/ ImageOnLoad
  \/ SetTool
  \/ \E e \in GestureEvents : HandleStart(e)
  \/ \E e \in PointerEvents : HandleMove(e)
  \/ HandleEnd
  \/ ToggleSidebar
  \/ SidebarOpenMarker
  \/ StartRelocation

SpecPointer == InitOn({<<ProjectA, ProjectB>>}) /\ [][NextPointer]_vars

\* Rendering: the data file holds ProjectC, whose image is 200 wide and whose
\* markers are at the right edge: the label box of "Plant 1" at x = 125 ends
\* exactly at the edge, that of "Plant 2" at x = 190 would cross it.  The
\* sidebar, the detail editor's X, Relocate and trash buttons, drags to
\* RenderEvents and the relocation bar.
ProjectC ==
  [id |-> 1, name |-> "C", image |-> Stored(1),
   markers |-> << StoredMarker(1, 125, 40, 1), StoredMarker(2, 190, 100, 2) >>,
   globalJournalEntries |-> <<>>]

RenderEvents ==
  { [clientX |-> 70, clientY |-> 90],     \* (60,80): far from the edge
    [clientX |-> 136, clientY |-> 50],    \* (126,40): one pixel past the limit
    [clientX |-> 205, clientY |-> 110] }  \* (195,100): at the edge

NextRender ==
  \/ LoadDataResponse
  \/ ImageOnLoad
  \/ \E e \in RenderEvents : HandleMove(e)
  \/ ToggleSidebar
  \/ SidebarOpenMarker
  \/ CloseNoteDialog
  \/ StartRelocation
  \/ FinishRelocation(TRUE)
  \/ FinishRelocation(FALSE)
  \/ RequestDeleteMarker
  \/ CancelDeleteMarker
  \/ DeleteMarker

SpecRender == InitOn({<<ProjectC>>}) /\ [][NextRender]_vars

\* finishRelocation alone: the data file holds ProjectA and ProjectB; the
\* handler is called in every state of the editor, with a relocation pending
\* (started from the sidebar, with drags and zooming out) and with none.
NextFinish ==
  \/ LoadDataResponse
  \/ ImageOnLoad
  \/ HandleZoom(-ZOOM_STEP)
  \/ HandleMove(MoveEvent)
  \/ ToggleSidebar
  \/ SidebarOpenMarker
  \/ CloseNoteDialog
  \/ StartRelocation
  \/ FinishRelocationCall(TRUE)
  \/ FinishRelocationCall(FALSE)

SpecFinish == InitOn({<<ProjectA, ProjectB>>}) /\ [][NextFinish]_vars

\* A project with one marker and one entry in its garden journal.
ProjectJ ==
  [id |-> 1, name |-> "J", image |-> Stored(1),
   markers |-> << StoredMarker(1, 18, 24, 1) >>,
   globalJournalEntries |-> << NewEntry(3, 3, "sown", <<>>) >>]

\* The journals: the data file holds ProjectJ; entries are added to and
\* deleted from the garden journal and, in the detail editor opened from
\* the sidebar, the marker's journal; the editor's Save and Cancel.
NextJournal ==
  \/ LoadDataResponse
  \/ \E d \in Drafts : AddGlobalJournalEntry(d.text, d.photos)
  \/ \E id \in 1..MaxClock : DeleteGlobalJournalEntry(id)
  \/ ToggleSidebar
  \/ SidebarOpenMarker
  \/ \E d \in Drafts : AddMarkerJournalEntry(d.text, d.photos)
  \/ \E id \in 1..MaxClock : DeleteMarkerJournalEntry(id)
  \/ SaveMarkerDetails
  \/ CloseNoteDialog

SpecJournal == InitOn({<<ProjectJ>>}) /\ [][NextJournal]_vars

\* Image references: the data file holds ProjectJ; an image is imported, entries with and without photos are added to and deleted from
\* the garden journal, and saveData's requests are answered or fail.
NextAdopt ==
  \/ LoadDataResponse
  \/ SaveResponse
  \/ SaveFail
  \/ HandleImageUpload
  \/ ImageUploadDone
  \/ \E d \in Drafts : AddGlobalJournalEntry(d.text, d.photos)
  \/ \E id \in 1..MaxClock : DeleteGlobalJournalEntry(id)

SpecAdopt == InitOn({<<ProjectJ>>}) /\ [][NextAdopt]_vars

\* The detail editor during a relocation: the data file holds ProjectA and
\* ProjectB; the sidebar's list opens the editor of a marker, the name field
\* is edited, Save, X and Relocate are pressed, the marker is dragged to
\* MoveEvent and the relocation bar is used.
NextEdit ==
  \/ LoadDataResponse
  \/ ImageOnLoad
  \/ ToggleSidebar
  \/ SidebarOpenMarker
  \/ SetNoteText
  \/ CloseNoteDialog
  \/ SaveMarkerDetails
  \/ StartRelocation
  \/ HandleMove(MoveEvent)
  \/ FinishRelocation(TRUE)
  \/ FinishRelocation(FALSE)

SpecEdit == InitOn({<<ProjectA, ProjectB>>}) /\ [][NextEdit]_vars

\* The server alone: the data file is empty; POST requests with the bodies
\* of ServerBodies arrive, their image files and the data file are written
\* or fail to be, and GET requests are answered.
NextServer ==
  \/ \E body \in ServerBodies : PostArrives(body)
  \/ ImagesWritten
  \/ DataFileWritten
  \/ DataFileWriteFails
  \/ GetProjects

SpecServer == InitOn({<<>>}) /\ [][NextServer]_vars

(* ------------------------- getPointerPos alone ------------------------- *)

\* The inputs of getPointerPos: the event, the canvas bitmap's size (that of
\* the current project's image, 200 or 400 wide) and the rectangle the layout
\* gives the canvas, which the zoom scale and the pan determine.  At these
\* scales the bitmap is as wide as its rectangle or twice as wide, so that
\* the products of line 361 are whole numbers.
ProbeProjects == { ProjectA, [ProjectA EXCEPT !.image = Stored(2)] }
ProbeScales == { 5, 10 }
ProbePans == { Origin, [x |-> 20, y |-> -10] }

\* The editor with one of ProbeProjects loaded and drawn, the view at one of
\* ProbeScales and ProbePans, either tool, a relocation pending or not.
InitPointerPos ==
  \E cp \in ProbeProjects, rm \in { Null, ProjectA.markers[1] } :
    /\ projects = <<cp, ProjectB>>
    /\ currentProject = cp
    /\ markers = cp.markers
    /\ globalJournalEntries = cp.globalJournalEntries
    /\ tool \in { "pan", "marker" }
    /\ selectedItem = Null
    /\ showNoteDialog = FALSE
    /\ noteText = ""
    /\ noteDescription = ""
    /\ notePhotos = <<>>
    /\ markerJournalEntries = <<>>
    /\ linkedPlant = Null
    /\ showDeleteMarkerConfirm = FALSE
    /\ showDeleteProjectConfirm = FALSE
    /\ showSidebar = FALSE
    /\ scale \in ProbeScales
    /\ pan \in ProbePans
    /\ isPanning = FALSE
    /\ panStart = Origin
    /\ relocatingMarker = rm
    /\ imageLoaded = TRUE
    /\ now = FirstNow
    /\ loadPending = {}
    /\ uploadPending = {}
    /\ deletePending = {}
    /\ inflight = {}
    /\ imgComplete = TRUE
    /\ canvas = Rendered(cp, cp.markers, rm)
    /\ drawOps = <<>>
    /\ server = ServerStart(<<cp>>)
    /\ lastOp = "init"
    /\ relocFrom = Null

\* The handlers that call getPointerPos on the canvas, and handleEnd.
NextPointerPos ==
  \/ \E e \in PointerEvents : HandleStart(e)
  \/ \E e \in PointerEvents : HandleMove(e)
  \/ \E e \in PointerEvents : HandleCanvasClick(e)
  \/ HandleEnd

SpecPointerPos == InitPointerPos /\ [][NextPointerPos]_vars

(* ------------------------------- claims -------------------------------- *)

\* C1: when finishRelocation(false) ends a relocation that startRelocation
\* began on a marker persisted at (x0, y0) and that only drags and save
\* callbacks have followed, the marker is in the collection at exactly
\* (x0, y0) and no relocation is pending.
C1_CancelRestoresPersisted ==
  [][ (relocFrom # Null /\ FinishRelocation(FALSE)) =>
        /\ relocatingMarker' = Null
        /\ Len(markers') = Len(relocFrom.at)
        /\ markers'[relocFrom.index].x = relocFrom.x
        /\ markers'[relocFrom.index].y = relocFrom.y ]_vars

\* C2: when finishRelocation(true) ends a relocation whose last drag was at
\* point p, the marker is in the collection at exactly p, every other marker
\* is as it was when the relocation started, and no relocation is pending.
C2_CommitKeepsDragged ==
  [][ (relocFrom # Null /\ relocFrom.p # Null /\ FinishRelocation(TRUE)) =>
        /\ relocatingMarker' = Null
        /\ Len(markers') = Len(relocFrom.at)
        /\ markers'[relocFrom.index] =
             [relocFrom.at[relocFrom.index] EXCEPT !.x = relocFrom.p.x,
                                                   !.y = relocFrom.p.y]
        /\ \A i \in 1..Len(markers') :
             i # relocFrom.index => markers'[i] = relocFrom.at[i] ]_vars

\* C3: deleteMarker on the marker that is pending relocation leaves no
\* relocation pending, and the marker is neither in the collection nor in
\* what is drawn.
C3_DeleteEndsRelocation ==
  [][ (/\ DeleteMarker
       /\ relocatingMarker # Null
       /\ selectedItem.id = relocatingMarker.id) =>
        /\ relocatingMarker' = Null
        /\ \A i \in 1..Len(markers') : markers'[i].id # selectedItem.id
        /\ \A i \in 1..Len(drawOps') :
             drawOps'[i].op = "glyph" =>
               drawOps'[i].glyph.label # selectedItem.label ]_vars


\* The places of the markers of ms less than HIT_RADIUS away from pos.
Within(ms, pos) ==
  { i \in 1..Len(ms) :
      (ms[i].x - pos.x) * (ms[i].x - pos.x) + (ms[i].y - pos.y) * (ms[i].y - pos.y)
        < HIT_RADIUS * HIT_RADIUS }

\* C4: a click with the marker tool opens the first marker, in insertion
\* order, that is less than 30 away from the click's image-space point, also
\* when a later one is nearer; when none is (a marker exactly 30 away is
\* not), it opens none of them and places a new marker.
C4_HitIsFirstWithinRadius ==
  [][ \A e \in HitEvents :
        (HandleCanvasClick(e) /\ relocatingMarker = Null /\ tool = "marker") =>
          LET within == Within(markers, PointerPos(e))
          IN IF within = {}
             THEN /\ Len(markers') = Len(markers) + 1
                  /\ selectedItem' = markers'[Len(markers')]
                  /\ \A i \in 1..Len(markers) : markers'[i] = markers[i]
             ELSE /\ markers' = markers
                  /\ showNoteDialog'
                  /\ \E i \in within :
                       /\ \A k \in within : i <= k
                       /\ selectedItem' = markers[i] ]_vars

\* C4's case: a click has opened the first marker although the second one is
\* within the radius of the same point too, and nearer to it.
C4_Witness ==
  /\ lastOp = "handleCanvasClick"
  /\ showNoteDialog
  /\ Len(markers) = 2
  /\ selectedItem = markers[1]
  /\ \E e \in HitEvents :
       LET pos == PointerPos(e)
       IN /\ Within(markers, pos) = {1, 2}
          /\ Dist2(markers[2].x, markers[2].y, pos.x, pos.y)
               < Dist2(markers[1].x, markers[1].y, pos.x, pos.y)

\* C5: a step that makes project P current leaves, in the same state, the
\* marker collection equal to P's markers and the garden journal to P's
\* journal, scale 1 and pan (0,0), no relocation pending and the image
\* marked not loaded.
C5_SwitchIsAtomic ==
  [][ (currentProject' # currentProject /\ currentProject' # Null) =>
        /\ markers' = currentProject'.markers
        /\ globalJournalEntries' = currentProject'.globalJournalEntries
        /\ scale' = 10
        /\ pan' = Origin
        /\ relocatingMarker' = Null
        /\ ~imageLoaded' ]_vars

\* C5's case: ProjectB, which has no marker, has just been made current while
\* the canvas still shows ProjectA's markers, one of them under relocation.
C5_Witness ==
  /\ lastOp = "loadProject"
  /\ currentProject # Null
  /\ currentProject.id = ProjectB.id
  /\ markers = <<>>
  /\ scale = 10
  /\ relocatingMarker = Null
  /\ \E i \in 1..Len(canvas.glyphs) : canvas.glyphs[i].radius = MOVING_RADIUS

\* C6: once the initial load has completed, whenever the project list is not
\* empty there is a current project, and its id is the id of a project in
\* the list.
C6_OneProjectIsCurrent ==
  (loadPending = {} /\ Len(projects) > 0) =>
    /\ currentProject # Null
    /\ \E i \in 1..Len(projects) : projects[i].id = currentProject.id

\* C7: every marker in the collection has a non-empty label.
C7_EveryMarkerHasLabel ==
  \A i \in 1..Len(markers) : markers[i].label # ""

\* C8: no two markers of the collection have the same id, and no step
\* changes the id of a marker that stays in its place.
C8_IdsUniqueAndImmutable ==
  /\ [](\A i, j \in 1..Len(markers) : i # j => markers[i].id # markers[j].id)
  /\ [][ Len(markers') = Len(markers) /\ currentProject' = currentProject =>
           \A i \in 1..Len(markers) : markers'[i].id = markers[i].id ]_vars

\* C9: the scale is within [0.2, 5.0] in every state, and a zoom step gives
\* the sum of scale and step, or the nearest bound where the sum is outside.
C9_ScaleIsClamped ==
  /\ [](scale >= MIN_SCALE /\ scale <= MAX_SCALE)
  /\ [][ \A delta \in {ZOOM_STEP, -ZOOM_STEP} :
           HandleZoom(delta) =>
             scale' = IF scale + delta > MAX_SCALE THEN MAX_SCALE
                      ELSE IF scale + delta < MIN_SCALE THEN MIN_SCALE
                      ELSE scale + delta ]_vars

\* C9's case: a zoom-out step from 0.5 has stopped at the lower bound.
C9_Witness ==
  /\ lastOp = "handleZoom"
  /\ scale = MIN_SCALE

\* C10: whatever a step's render effect does to the canvas (resize, clear,
\* glyphs), it does in a state where the image is loaded; where it is not,
\* the effect does nothing.
C10_NoDrawBeforeImageLoaded ==
  drawOps # <<>> => (currentProject # Null /\ imageLoaded /\ imgComplete)

\* C10's case: loadProject has run and the render effect with it, the <img>
\* is complete (it keeps the picture it has) but imageLoaded is false, and
\* nothing was drawn.
C10_Witness ==
  /\ lastOp = "loadProject"
  /\ currentProject # Null
  /\ imgComplete
  /\ ~imageLoaded
  /\ drawOps = <<>>


\* What zooming and panning may change: the view transform.  Everything
\* else the program holds, the marker collection first of all.
allButView ==
  <<projects, currentProject, markers, globalJournalEntries, tool,
    dialogVars, confirmVars, showSidebar, isPanning, panStart,
    relocatingMarker, imageLoaded, asyncVars, imgComplete, canvas>>

\* C11: handleZoom, the Reset View button and a pointer-move handled while
\* panning change only scale and pan; the marker collection (every field of
\* every marker) and the relocating marker stay as they are, also while a
\* relocation is pending.
C11_ViewLeavesMarkers ==
  [][ ( \/ HandleZoom(ZOOM_STEP)
        \/ HandleZoom(-ZOOM_STEP)
        \/ ResetView
        \/ (isPanning /\ \E e \in PointerEvents : HandleMove(e)) )
      => UNCHANGED allButView ]_vars

\* A relocation is pending, the view was zoomed, and the last step panned it.
C11_Witness ==
  /\ relocatingMarker # Null
  /\ isPanning
  /\ lastOp = "handleMove"
  /\ pan # Origin
  /\ scale # 10


\* C12: a click that creates a marker appends exactly one marker to the
\* collection, labelled "Plant N" with N the number of markers before the
\* click plus one, at the image-space point of the click, with an empty
\* description, no photos, no journal entries and no linked plant; the
\* markers that were there keep their contents and their order.
C12_PlacementAppendsPlantN ==
  [][ \A e \in HitEvents \cup PointerEvents :
        (HandleCanvasClick(e) /\ markers' # markers)
        => LET created == markers'[Len(markers')]
               pos == PointerPos(e)
           IN /\ Len(markers') = Len(markers) + 1
              /\ SubSeq(markers', 1, Len(markers)) = markers
              /\ created.label = "Plant " \o ToString(Len(markers) + 1)
              /\ created.x = pos.x
              /\ created.y = pos.y
              /\ created.description = ""
              /\ created.photos = <<>>
              /\ created.journalEntries = <<>>
              /\ created.linkedPlant = Null ]_vars

\* A placement click has just added a second marker behind an existing one.
C12_Witness ==
  /\ lastOp = "handleCanvasClick"
  /\ Len(markers) = 2
  /\ markers[1] \in { ProjectA.markers[1], ProjectA.markers[2] }
  /\ markers[2].label = "Plant 2"
  /\ markers[2].id = now
  /\ selectedItem = markers[2]


\* The canvas bitmap with both sides doubled.
TwiceAsLarge(cv) == [cv EXCEPT !.width = 2 * @, !.height = 2 * @]

\* The canvas rectangle of the current state.
CurrentRect == BoundingRect(canvas, scale, pan)

\* C13: with rect the canvas's display rectangle and W x H its bitmap,
\* getPointerPos maps the device point (cx, cy) to
\* ((cx - rect.left) * W / rect.width, (cy - rect.top) * H / rect.height) and
\* hands clientX and clientY through; a bitmap twice as large on the same
\* rectangle doubles the result; the result is the same whatever the tool
\* and whether or not a relocation is pending; and a handler that only calls
\* getPointerPos leaves the state as it is.
C13_PointerPosIsLinearAndPure ==
  /\ [](canvas.mounted /\ canvas.width > 0 /\ canvas.height > 0
        => \A e \in PointerEvents :
             LET pos == PointerPos(e)
                 twice == GetPointerPos(e, CurrentRect, TwiceAsLarge(canvas))
             IN /\ CurrentRect.width > 0 /\ CurrentRect.height > 0
                /\ pos.x * CurrentRect.width = (e.clientX - CurrentRect.left) * canvas.width
                /\ pos.y * CurrentRect.height = (e.clientY - CurrentRect.top) * canvas.height
                /\ pos.clientX = e.clientX /\ pos.clientY = e.clientY
                /\ twice.x = 2 * pos.x /\ twice.y = 2 * pos.y)
  /\ [][ \A e \in PointerEvents :
           /\ (HandleMove(e) /\ Dragging(relocatingMarker, isPanning))
              => /\ relocatingMarker'.x * CurrentRect.width
                      = (e.clientX - CurrentRect.left) * canvas.width
                 /\ relocatingMarker'.y * CurrentRect.height
                      = (e.clientY - CurrentRect.top) * canvas.height
           /\ (HandleMove(e) /\ relocatingMarker = Null /\ ~isPanning)
              => UNCHANGED programState
           /\ (HandleCanvasClick(e) /\ relocatingMarker # Null)
              => UNCHANGED programState ]_vars

\* At half size (the bitmap twice as wide as its rectangle at (60, 60)), a
\* move at client (70, 90) has put the relocating marker at (20, 60).
C13_Witness ==
  /\ scale = 5
  /\ pan = Origin
  /\ canvas.width = 200
  /\ lastOp = "handleMove"
  /\ relocatingMarker # Null
  /\ relocatingMarker.x = 20
  /\ relocatingMarker.y = 60
  /\ markers[1] = relocatingMarker


\* C14: the label box of every marker drawn is (text width + 12) wide and 26
\* high; its corner is at (x + 14, y - 13), unless x + 14 + its width exceeds
\* the image width: then the corner is at (x - 14 - its width, y - 13), to
\* the left of the marker.
C14_LabelBoxFlipsAtRightEdge ==
  \A i \in 1..Len(canvas.glyphs) :
    LET g == canvas.glyphs[i]
        w == MeasureText(g.label)
        flipped == g.x + 14 + (w + 12) > canvas.width
    IN /\ g.box.width = w + 12
       /\ g.box.height = 26
       /\ g.box.y = g.y - 13
       /\ ~flipped => g.box.x = g.x + 14
       /\ flipped => (g.box.x = g.x - 14 - (w + 12) /\ g.box.x < g.x)

\* On the 200 wide image, "Plant 1" at x = 125 has its box at 139 (it ends at
\* 200, not beyond), and "Plant 2", dragged to x = 195, has its box at 120.
C14_Witness ==
  /\ canvas.width = 200
  /\ Len(canvas.glyphs) = 2
  /\ canvas.glyphs[1].x = 125 /\ canvas.glyphs[1].box.x = 139
  /\ canvas.glyphs[1].box.width = 61
  /\ canvas.glyphs[2].x = 195 /\ canvas.glyphs[2].box.x = 120
  /\ lastOp = "handleMove"


\* The disc the render effect draws for marker m while the marker with the
\* id of rm (Null: none) is being relocated.
ExpectedDisc(m, rm) ==
  IF rm # Null /\ rm.id = m.id
  THEN [x |-> m.x, y |-> m.y, radius |-> 12, fill |-> "#fbbf24", label |-> m.label]
  ELSE [x |-> m.x, y |-> m.y, radius |-> 8, fill |-> m.color, label |-> m.label]

\* A glyph without its label box.
Disc(g) == [x |-> g.x, y |-> g.y, radius |-> g.radius, fill |-> g.fill, label |-> g.label]

\* C15: whenever the render effect draws, what it draws is determined by the
\* marker collection, the id of the relocating marker and the image size:
\* the canvas takes the image's size and is cleared first, then every marker
\* is drawn in collection order with its label, at radius 12 in the highlight
\* colour if it is the relocating marker and at radius 8 in its own colour
\* otherwise; and the canvas then shows exactly these glyphs, whatever it
\* showed before.
C15_RenderIsDeterministic ==
  [][ drawOps' # <<>> =>
        LET ms == markers'
            moving == relocatingMarker'
            width == NaturalWidth(currentProject'.image)
            height == NaturalHeight(currentProject'.image)
        IN /\ Len(drawOps') = 2 + Len(ms)
           /\ drawOps'[1] = [op |-> "resize", width |-> width, height |-> height]
           /\ drawOps'[2] = [op |-> "clear"]
           /\ \A i \in 1..Len(ms) :
                /\ drawOps'[2 + i].op = "glyph"
                /\ Disc(drawOps'[2 + i].glyph) = ExpectedDisc(ms[i], moving)
                /\ drawOps'[2 + i].glyph.box = LabelBox(ms[i], width)
           /\ canvas'.width = width
           /\ canvas'.height = height
           /\ canvas'.glyphs = [i \in 1..Len(ms) |-> drawOps'[2 + i].glyph] ]_vars

\* A drag has just redrawn a canvas that already showed both markers: the
\* relocating one is drawn large at its new place, the other one small.
C15_Witness ==
  /\ lastOp = "handleMove"
  /\ Len(drawOps) = 4
  /\ relocatingMarker # Null
  /\ relocatingMarker.id = 2
  /\ drawOps[3].glyph.radius = 8
  /\ drawOps[4].glyph.radius = 12
  /\ drawOps[4].glyph.x = 60
  /\ Len(canvas.glyphs) = 2
  /\ canvas.glyphs[2].x = 60


\* The save effect's dependencies (line 283) change in this step while a
\* project is current afterwards: saveData runs, and the list it sends is
\* the one it stores with setProjects (lines 298-299), projects'.
SaveEffectRuns ==
  /\ <<markers, globalJournalEntries, currentProject>>'
       # <<markers, globalJournalEntries, currentProject>>
  /\ currentProject' # Null

\* C16: every change of the marker collection, the garden journal or the
\* current project that leaves a project current sends the project list with
\* a record of the current project, which carries the current markers and
\* the current journal, and with the records of all other projects of the
\* list, as they were before.
C16_SaveCarriesCurrentProject ==
  [][ SaveEffectRuns =>
        /\ \E i \in 1..Len(projects') : projects'[i].id = currentProject'.id
        /\ \A i \in 1..Len(projects') :
             IF projects'[i].id = currentProject'.id
             THEN /\ projects'[i].markers = markers'
                  /\ projects'[i].globalJournalEntries = globalJournalEntries'
             ELSE \A k \in 1..Len(projects) :
                    projects[k].id = projects'[i].id => projects[k] = projects'[i]
        /\ \A k \in 1..Len(projects) :
             projects[k].id # currentProject'.id
             => \E i \in 1..Len(projects') : projects'[i] = projects[k] ]_vars


\* Everything the program holds except isPanning.
allButPanning ==
  <<projects, currentProject, markers, globalJournalEntries, tool,
    dialogVars, confirmVars, showSidebar, scale, pan, panStart,
    relocatingMarker, imageLoaded, asyncVars, inflight, imgComplete, canvas>>

\* C17: handleEnd (pointer-up, pointer-leave, touch end) ends panning and
\* changes nothing else: the pending relocation stays pending, the markers
\* stay where the drags put them, nothing is saved or restored.
C17_EndOnlyEndsPanning ==
  [][ HandleEnd => (isPanning' = FALSE /\ UNCHANGED allButPanning) ]_vars

\* A relocation whose marker was dragged is still pending, with the marker
\* at the dragged point, after a handleEnd that ended a pan.
C17_Witness ==
  /\ lastOp = "handleEnd"
  /\ ~isPanning
  /\ relocatingMarker # Null
  /\ relocFrom # Null
  /\ relocFrom.p # Null
  /\ relocatingMarker.x = relocFrom.p.x
  /\ relocatingMarker.x # relocFrom.at[relocFrom.index].x
  /\ markers[relocFrom.index] = relocatingMarker


\* Where the markers are.
Positions(ms) == [i \in 1..Len(ms) |-> <<ms[i].x, ms[i].y>>]

\* C19: while a relocation is pending, a pointer-move changes a marker's
\* position only between a press within 50 px of the relocating marker and
\* the release that follows it; moves after a release with no press in
\* between (hovering) leave every marker where it is.
C19_HoverLeavesMarkers ==
  [][ \A e \in PointerEvents :
        (HandleMove(e) /\ relocFrom # Null /\ relocFrom.press # "near")
        => Positions(markers') = Positions(markers) ]_vars

\* C20: a press while a relocation is pending and no pan is under way: if it
\* is at most 50 px from the relocating marker's live position, no pan
\* starts, and the moves that follow put the marker at the pointer and leave
\* the pan as it is; if it is farther, a pan starts at the press, and the
\* moves that follow set the pan and leave the markers as they are; with
\* either tool.
C20_PressNearDragsPressFarPans ==
  [][ /\ \A e \in GestureEvents :
           (HandleStart(e) /\ relocatingMarker # Null /\ ~isPanning)
           => IF Dist2(relocatingMarker.x, relocatingMarker.y,
                       PointerPos(e).x, PointerPos(e).y) <= 50 * 50
              THEN ~isPanning' /\ UNCHANGED <<markers, relocatingMarker, pan>>
              ELSE /\ isPanning'
                   /\ panStart' = [x |-> e.clientX - pan.x, y |-> e.clientY - pan.y]
                   /\ UNCHANGED <<markers, relocatingMarker, pan>>
      /\ \A e \in PointerEvents :
           (HandleMove(e) /\ relocatingMarker # Null /\ relocFrom # Null)
           => /\ (relocFrom.press = "near" /\ ~isPanning)
                 => /\ pan' = pan
                    /\ relocatingMarker'.x = PointerPos(e).x
                    /\ relocatingMarker'.y = PointerPos(e).y
                    /\ markers'[relocFrom.index] = relocatingMarker'
                    /\ ~isPanning'
              /\ relocFrom.press = "far"
                 => /\ isPanning
                    /\ pan' = [x |-> e.clientX - panStart.x, y |-> e.clientY - panStart.y]
                    /\ markers' = markers
                    /\ relocatingMarker' = relocatingMarker ]_vars

\* With the pan tool active, a press 20 px from the relocating marker was
\* followed by a move that dragged the marker and left the pan alone.
C20_WitnessNear ==
  /\ tool = "pan"
  /\ relocFrom # Null
  /\ relocFrom.press = "near"
  /\ relocFrom.p # Null
  /\ lastOp = "handleMove"
  /\ ~isPanning
  /\ pan = Origin
  /\ relocatingMarker.x = 30 /\ relocatingMarker.y = 40
  /\ markers[relocFrom.index] = relocatingMarker

\* A press more than 50 px away was followed by a move that panned the view
\* and left the dragged marker where it was.
C20_Witness ==
  /\ relocFrom # Null
  /\ relocFrom.press = "far"
  /\ relocFrom.p # Null
  /\ lastOp = "handleMove"
  /\ isPanning
  /\ pan # Origin
  /\ relocatingMarker.x = relocFrom.p.x


\* The ids of the records of a list.
Ids(s) == { s[i].id : i \in 1..Len(s) }

\* C18: a marker leaves the collection of the current project only by the
\* confirm button of the "Delete Marker?" dialog, a project leaves the
\* project list only by the confirm button of the "Delete Garden Plan?"
\* dialog, and the cancel button of either dialog leaves the marker
\* collection and the project list as they are.
C18_DeletionsAreConfirmed ==
  [][ /\ (currentProject' = currentProject /\ ~(Ids(markers) \subseteq Ids(markers')))
         => (showDeleteMarkerConfirm /\ DeleteMarker)
      /\ ~(Ids(projects) \subseteq Ids(projects'))
         => (showDeleteProjectConfirm /\ DeleteCurrentProject)
      /\ (CancelDeleteMarker \/ CancelDeleteProject)
         => UNCHANGED <<markers, projects, notePhotos>> ]_vars


\* C21: a press while no relocation is pending and no pan is under way
\* starts a pan if and only if the pan tool is active, and changes neither
\* the pan nor the markers; while no relocation is pending and no pan is
\* under way (after a press with another tool), a move changes neither the
\* pan nor any marker.
C21_PressPansOnlyWithPanTool ==
  [][ /\ \A e \in GestureEvents :
           (HandleStart(e) /\ relocatingMarker = Null /\ ~isPanning)
           => /\ isPanning' <=> tool = "pan"
              /\ UNCHANGED <<markers, pan, relocatingMarker>>
      /\ \A e \in PointerEvents :
           (HandleMove(e) /\ relocatingMarker = Null /\ ~isPanning)
           => UNCHANGED <<markers, pan, isPanning, relocatingMarker>> ]_vars

\* With the pan tool and no relocation pending, a press has started a pan.
C21_Witness ==
  /\ tool = "pan"
  /\ relocatingMarker = Null
  /\ relocFrom = Null
  /\ isPanning
  /\ lastOp = "handleStart"
  /\ panStart = [x |-> 110, y |-> 50]


\* C22: while a relocation is pending and no pan is under way, a move puts
\* the relocating marker, in its place in the collection, at the image-space
\* point of the pointer, at once; it changes nothing else of that marker,
\* and the number, the order and the contents of the other markers stay.
C22_DragReplacesInPlace ==
  [][ \A e \in PointerEvents :
        (HandleMove(e) /\ Dragging(relocatingMarker, isPanning) /\ relocFrom # Null)
        => /\ Len(markers') = Len(markers)
           /\ \A i \in 1..Len(markers) :
                markers'[i] = IF i = relocFrom.index
                              THEN [markers[i] EXCEPT !.x = PointerPos(e).x,
                                                      !.y = PointerPos(e).y]
                              ELSE markers[i] ]_vars


\* C23: a press that starts a pan records the device point of the press
\* less the pan of that moment; while panning, a move at device point c sets
\* the pan to c less that record, that is to the pan at the press plus
\* (c - the point of the press), on both axes, and changes nothing else: the
\* result depends on the press and on c only, so the same move handled again
\* gives the same state.
C23_PanFollowsPointer ==
  [][ /\ \A e \in GestureEvents :
           (HandleStart(e) /\ ~isPanning /\ isPanning')
           => /\ pan' = pan
              /\ panStart'.x + pan.x = e.clientX
              /\ panStart'.y + pan.y = e.clientY
      /\ \A c \in PointerEvents :
           (HandleMove(c) /\ isPanning)
           => /\ pan'.x = c.clientX - panStart.x
              /\ pan'.y = c.clientY - panStart.y
              /\ UNCHANGED <<panStart, isPanning, scale, markers, relocatingMarker>>
              /\ Panned(c, panStart') = pan' ]_vars

\* A pan that a press at (110,50) started with the view reset has followed
\* the pointer to (70,90): the pan is (-40,40).
C23_Witness ==
  /\ isPanning
  /\ lastOp = "handleMove"
  /\ panStart = [x |-> 110, y |-> 50]
  /\ pan = [x |-> -40, y |-> 40]


\* The list s without its k-th element.
Without(s, k) == [i \in 1..(Len(s) - 1) |-> IF i < k THEN s[i] ELSE s[i + 1]]

\* The places of the markers with this id.
PlacesOf(ms, id) == { i \in 1..Len(ms) : ms[i].id = id }

\* C24: saveMarkerDetails on an id that is in the collection replaces one
\* entry in place (same index, same length, the others unchanged);
\* deleteMarker on an id that is in the collection removes exactly one
\* marker and keeps the others in order; either of them, and a drag, on an
\* id that is not in the collection leaves the collection as it is.
C24_UpdateAndDeleteByOneId ==
  [][ /\ (SaveMarkerDetails /\ PlacesOf(markers, selectedItem.id) # {})
         => \E k \in PlacesOf(markers, selectedItem.id) :
              /\ Len(markers') = Len(markers)
              /\ markers'[k] = WithDetails(markers[k])
              /\ \A i \in 1..Len(markers) : i # k => markers'[i] = markers[i]
      /\ (DeleteMarker /\ PlacesOf(markers, selectedItem.id) # {})
         => \E k \in PlacesOf(markers, selectedItem.id) :
              markers' = Without(markers, k)
      /\ ((SaveMarkerDetails \/ DeleteMarker) /\ PlacesOf(markers, selectedItem.id) = {})
         => markers' = markers
      /\ \A e \in PointerEvents :
           (HandleMove(e) /\ relocatingMarker # Null
              /\ PlacesOf(markers, relocatingMarker.id) = {})
           => markers' = markers ]_vars


\* C25: in every state, the marker of a pending relocation is in the marker
\* collection.
C25_RelocatingMarkerExists ==
  relocatingMarker # Null => PlacesOf(markers, relocatingMarker.id) # {}


\* C26: startRelocation is never executed on a selected marker while a
\* relocation is already pending.
C26_NoRelocationStartsDuringAnother ==
  [][ (StartRelocation /\ selectedItem # Null) => relocatingMarker = Null ]_vars


\* C27: finishRelocation(true) and finishRelocation(false) called with no
\* relocation pending change nothing: the marker collection, the view
\* transform, the project list and everything else stay, and no relocation
\* is pending afterwards.
C27_FinishWithoutRelocationIsIgnored ==
  [][ ((FinishRelocationCall(TRUE) \/ FinishRelocationCall(FALSE))
         /\ relocatingMarker = Null)
      => /\ relocatingMarker' = Null
         /\ UNCHANGED <<markers, scale, pan, projects>>
         /\ UNCHANGED programState ]_vars

\* No relocation is pending, the view is zoomed out and a marker has been
\* dragged away from where the data file had it: the state of a call of
\* finishRelocation after the relocation has ended.
C27_Witness ==
  /\ relocatingMarker = Null
  /\ lastOp \in {"finishRelocation(true)", "finishRelocation(false)"}
  /\ scale = 5
  /\ markers # <<>>
  /\ markers # ProjectA.markers
  /\ ENABLED FinishRelocationCall(FALSE)


\* A journal whose entries are ordered newest first.
NewestFirst(entries) ==
  \A i, j \in 1..Len(entries) :
    i < j => entries[i].timestamp >= entries[j].timestamp

\* The entries of a journal whose id is not `id`, in their order.
RECURSIVE Kept(_, _)
Kept(entries, id) ==
  IF entries = <<>> THEN <<>>
  ELSE IF Head(entries).id = id THEN Kept(Tail(entries), id)
  ELSE <<Head(entries)>> \o Kept(Tail(entries), id)

\* A draft with blank text and no photos.
BlankDraft(text, photos) == text \in {"", " "} /\ photos = <<>>

\* What adding the draft (text, photos) at clock value `clock` makes of the
\* journal `before`: one new entry in front of the entries there were.
AddedTo(before, after, text, photos, clock) ==
  /\ Len(after) = Len(before) + 1
  /\ Tail(after) = before
  /\ Head(after).text = text
  /\ Head(after).photos = photos
  /\ Head(after).timestamp >= clock
  /\ Head(after).timestamp <= now'

\* C29: in the garden journal and in the detail editor's marker journal,
\* adding a draft with non-blank text or a photo puts exactly one entry with
\* the current timestamp in front of the entries there were, which stay as
\* they are; adding a blank draft without photos changes nothing; deleting an
\* id leaves exactly the entries with another id, as they were and in their
\* order; and every journal is ordered newest first at all times.
C29_JournalsPrependAndFilter ==
  /\ [](/\ NewestFirst(globalJournalEntries)
        /\ NewestFirst(markerJournalEntries)
        /\ \A i \in 1..Len(markers) : NewestFirst(markers[i].journalEntries))
  /\ [][ \A d \in Drafts :
           /\ AddGlobalJournalEntry(d.text, d.photos) =>
                IF BlankDraft(d.text, d.photos)
                THEN UNCHANGED <<programState, now>>
                ELSE /\ AddedTo(globalJournalEntries, globalJournalEntries',
                                d.text, d.photos, now)
                     /\ UNCHANGED markerJournalEntries
           /\ AddMarkerJournalEntry(d.text, d.photos) =>
                IF BlankDraft(d.text, d.photos)
                THEN UNCHANGED <<programState, now>>
                ELSE /\ AddedTo(markerJournalEntries, markerJournalEntries',
                                d.text, d.photos, now)
                     /\ UNCHANGED globalJournalEntries ]_vars
  /\ [][ \A id \in 1..MaxClock :
           /\ DeleteGlobalJournalEntry(id) =>
                /\ globalJournalEntries' = Kept(globalJournalEntries, id)
                /\ UNCHANGED markerJournalEntries
           /\ DeleteMarkerJournalEntry(id) =>
                /\ markerJournalEntries' = Kept(markerJournalEntries, id)
                /\ UNCHANGED globalJournalEntries ]_vars

\* The entry the data file had has been deleted from the garden journal and
\* two entries have been added to it, and the second of two entries has just
\* been added to the marker journal of the open editor.
C29_Witness ==
  /\ lastOp = "addMarkerJournalEntry"
  /\ showNoteDialog
  /\ Len(markerJournalEntries) = 2
  /\ Len(globalJournalEntries) = 2
  /\ \A i \in 1..2 : globalJournalEntries[i].id >= FirstNow
  /\ globalJournalEntries[1].photos # <<>>
  /\ markerJournalEntries[1].text = "rain"


\* The image references of a list of photos that belongs to `owner`.
PhotoRefs(owner, photos) ==
  { [owner EXCEPT !.index = i, !.inline = photos[i].inline] :
      i \in 1..Len(photos) }

\* The image references of the entries of a journal that belongs to `owner`.
EntryRefs(owner, entries) ==
  UNION { PhotoRefs([owner EXCEPT !.entry = entries[i].id], entries[i].photos) :
            i \in 1..Len(entries) }

\* The image references of a project list: for every base image, marker
\* photo and journal photo, the field it is in and whether it is inline data.
ImageRefs(ps) ==
  UNION { LET of == [project |-> ps[k].id, marker |-> 0, entry |-> 0,
                     index |-> 0, inline |-> ps[k].image.inline]
          IN {of}
             \cup EntryRefs(of, ps[k].globalJournalEntries)
             \cup UNION { PhotoRefs([of EXCEPT !.marker = ps[k].markers[i].id],
                                    ps[k].markers[i].photos)
                          \cup EntryRefs([of EXCEPT !.marker = ps[k].markers[i].id],
                                         ps[k].markers[i].journalEntries) :
                          i \in 1..Len(ps[k].markers) } :
          k \in 1..Len(ps) }

\* C28: a save response that is processed becomes the in-memory project
\* list, and a save request sends no inline data for a field (base image,
\* marker photo, journal photo) whose reference in the in-memory list is a
\* stored-file path.
C28_NextSaveSendsRewrittenReferences ==
  /\ [][ SaveResponse => projects' \in inflight ]_vars
  /\ [][ SaveEffectRuns =>
           \A r \in ImageRefs(projects') :
             r.inline => [r EXCEPT !.inline = FALSE] \notin ImageRefs(projects) ]_vars


\* C30: deleteCurrentProject takes exactly the record of the current project
\* out of the project list and leaves the others as they are and in their
\* order; when it has finished, the list is still the one it left, and its
\* last project is current, loaded through loadProject (its markers and
\* journal, the initial view, no relocation pending), or no project is
\* current when the list is empty.
C30_DeleteRemovesCurrentAndLoadsLast ==
  /\ [][ DeleteCurrentProject =>
           \E k \in 1..Len(projects) :
             /\ projects[k].id = currentProject.id
             /\ projects' = Without(projects, k) ]_vars
  /\ [][ DeleteCurrentProjectResume =>
           /\ projects' = projects
           /\ \A i \in 1..Len(projects') : projects'[i].id # currentProject.id
           /\ IF projects' = <<>>
              THEN currentProject' = Null
              ELSE /\ currentProject' = projects'[Len(projects')]
                   /\ markers' = currentProject'.markers
                   /\ globalJournalEntries' = currentProject'.globalJournalEntries
                   /\ scale' = 10
                   /\ pan' = Origin
                   /\ relocatingMarker' = Null ]_vars


\* C31: a drag pointer-move changes only the x and y of the relocating
\* marker: every marker of the collection has after the move the id, label,
\* description, photos, journal entries, linked reference and colour it had
\* before the move, also when its details were saved in the editor after the
\* relocation was started.
C31_DragChangesOnlyPosition ==
  [][ (HandleMove(MoveEvent) /\ Dragging(relocatingMarker, isPanning))
        => /\ Len(markers') = Len(markers)
           /\ \A i \in 1..Len(markers) :
                markers'[i] = [markers[i] EXCEPT !.x = markers'[i].x,
                                                 !.y = markers'[i].y] ]_vars


\* C36: saveMarkerDetails gives the selected marker the editor's label,
\* description, photos, journal entries and linked reference and changes
\* nothing else in the collection: the marker keeps its id, x, y, colour and
\* index, every other marker stays as it is, and afterwards the editor is
\* closed with nothing selected.
C36_SaveChangesOnlyDetailsOfSelected ==
  [][ SaveMarkerDetails =>
        /\ Len(markers') = Len(markers)
        /\ \A i \in 1..Len(markers) :
             IF markers[i] = selectedItem
             THEN markers'[i] =
                    [markers[i] EXCEPT !.label = noteText,
                                       !.description = noteDescription,
                                       !.photos = notePhotos,
                                       !.journalEntries = markerJournalEntries,
                                       !.linkedPlant = linkedPlant]
             ELSE markers'[i] = markers[i]
        /\ showNoteDialog' = FALSE
        /\ selectedItem' = Null ]_vars


\* C37: a canvas click changes the collection only by appending one marker,
\* and only with the marker tool, no relocation pending and no marker less
\* than 30 from the click point; while a relocation is pending it changes
\* nothing; with the pan tool it leaves the collection and the editor as
\* they are; with the marker tool and a marker less than 30 away it opens
\* the editor of the first such marker and leaves the collection unchanged.
C37_ClickCreatesOnlyOnFreeGround ==
  [][ \A e \in PointerEvents :
        HandleCanvasClick(e) =>
          LET near == Within(markers, PointerPos(e))
          IN /\ markers' # markers =>
                  /\ tool = "marker"
                  /\ relocatingMarker = Null
                  /\ near = {}
                  /\ Len(markers') = Len(markers) + 1
                  /\ SubSeq(markers', 1, Len(markers)) = markers
             /\ relocatingMarker # Null => UNCHANGED programState
             /\ tool = "pan" => UNCHANGED <<markers, dialogVars>>
             /\ (tool = "marker" /\ relocatingMarker = Null /\ near # {}) =>
                  /\ markers' = markers
                  /\ showNoteDialog'
                  /\ selectedItem' =
                       markers[CHOOSE i \in near : \A j \in near : i <= j] ]_vars

\* A relocation is pending, the canvas is shown with the marker tool, and a
\* click at MoveEvent is on free ground with room for another marker: the
\* click that would place a marker is ignored.
C37_Witness ==
  /\ relocatingMarker # Null
  /\ EditorShown
  /\ tool = "marker"
  /\ Len(markers) < MaxMarkers
  /\ Within(markers, PointerPos(MoveEvent)) = {}
  /\ ENABLED HandleCanvasClick(MoveEvent)


\* C38: a save request that fails (no response, or one that is not ok) is
\* only taken off the outstanding requests: the marker collection, the
\* garden journal, the current project, the view transform, the pending
\* relocation and the in-memory project list with its locally updated
\* records stay as they are, and so does everything else the program holds.
C38_FailedSaveChangesNothing ==
  [][ SaveFail =>
        /\ UNCHANGED <<markers, globalJournalEntries, currentProject, scale,
                       pan, relocatingMarker, projects>>
        /\ UNCHANGED <<tool, dialogVars, confirmVars, showSidebar, isPanning,
                       panStart, imageLoaded, asyncVars, imgComplete, canvas>>
        /\ inflight' \subseteq inflight ]_vars

\* The save request of a drag has failed while the relocation is pending:
\* the marker is where the drag put it, in the collection and in the record
\* of the current project in the project list.
C38_Witness ==
  /\ lastOp = "saveData failed"
  /\ inflight = {}
  /\ relocatingMarker # Null
  /\ relocFrom # Null
  /\ relocFrom.p # Null
  /\ markers # ProjectA.markers
  /\ projects[1].markers = markers


\* The pairs of references that are in the same place of two photo lists.
PhotoPairs(a, b) == { <<a[i], b[i]>> : i \in 1..Min(Len(a), Len(b)) }

\* The pairs of references that are in the same place of two journals.
EntryPairs(a, b) ==
  UNION { PhotoPairs(a[i].photos, b[i].photos) : i \in 1..Min(Len(a), Len(b)) }

\* The pairs of references that are in the same place of two project lists.
RefPairs(a, b) ==
  UNION { { <<a[i].image, b[i].image>> }
          \cup EntryPairs(a[i].globalJournalEntries, b[i].globalJournalEntries)
          \cup UNION { PhotoPairs(a[i].markers[k].photos, b[i].markers[k].photos)
                       \cup EntryPairs(a[i].markers[k].journalEntries,
                                       b[i].markers[k].journalEntries) :
                       k \in 1..Min(Len(a[i].markers), Len(b[i].markers)) } :
          i \in 1..Min(Len(a), Len(b)) }

\* A journal and a project list without their image references.
EntriesBlank(entries) ==
  [i \in 1..Len(entries) |->
     [entries[i] EXCEPT !.photos = [k \in 1..Len(entries[i].photos) |-> Null]]]

Blank(ps) ==
  [i \in 1..Len(ps) |->
     [ps[i] EXCEPT
        !.image = Null,
        !.globalJournalEntries = EntriesBlank(ps[i].globalJournalEntries),
        !.markers =
           [k \in 1..Len(ps[i].markers) |->
              [ps[i].markers[k] EXCEPT
                 !.photos = [n \in 1..Len(ps[i].markers[k].photos) |-> Null],
                 !.journalEntries =
                    EntriesBlank(ps[i].markers[k].journalEntries)]]]]

\* The path of the file with the bytes and the type of a data URI.
PathOf(img) ==
  [inline |-> FALSE, ext |-> IF img.type = "jpeg" THEN "jpg" ELSE img.type,
   content |-> img.content]

\* C39 as stated: in the list a POST answers, every reference of the body
\* that is no inline data is as it was and every inline data URI is replaced
\* by the path that its content and type determine; cleaning the answered
\* list again gives the same list; no other field differs from the body.
C39_EveryInlineImageGetsItsPath ==
  server.done # Null =>
    /\ \A p \in RefPairs(server.done.body, server.done.data) :
         IF p[1] = Null THEN p[2] = Null
         ELSE IF ~p[1].inline THEN p[2] = p[1]
         ELSE p[2] = PathOf(p[1])
    /\ CleanProjectData(server.done.data) = server.done.data
    /\ Blank(server.done.data) = Blank(server.done.body)

\* A data URI that line 30's pattern matches: base64, with a type of
\* letters, '-', '+' and '/'.  Of the types of ImageValues, "jp2" is not.
WellFormed(img) == img.base64 /\ img.type \in {"jpeg", "jpg", "png", "svg+xml"}

\* C39, amended: in the list a POST answers, an inline data URI that is
\* base64 with a type of letters, '-', '+', '/' and whose file was written is
\* replaced by the path that its content and type determine (equal content
\* and extension give the same path); every other reference, a missing one,
\* a path, another data URI or one whose file could not be written, is as it
\* was; cleaning a cleaned list again with all writes succeeding gives the
\* same list; no other field differs from the body.
C39_WrittenBase64ImagesGetTheirPath ==
  server.done # Null =>
    /\ \A p \in RefPairs(server.done.body, server.done.data) :
         IF p[1] = Null THEN p[2] = Null
         ELSE IF p[1].inline /\ WellFormed(p[1]) /\ p[1] \notin server.done.failed
         THEN p[2] = PathOf(p[1])
         ELSE p[2] = p[1]
    /\ CleanProjectData(CleanProjectData(server.done.body))
         = CleanProjectData(server.done.body)
    /\ server.done.failed = {} =>
         CleanProjectData(server.done.data) = server.done.data
    /\ Blank(server.done.data) = Blank(server.done.body)

\* A POST was answered whose body held a file of type "jpg" as base image
\* and a JPEG of the same bytes as photos: all were written and have the
\* same path.
C39_Witness ==
  /\ server.done # Null
  /\ server.done.body = <<ServerProject(1, DataUri("jpg", TRUE, 3), Inline(3))>>
  /\ server.done.failed = {}
  /\ server.done.data = <<ServerProject(1, Stored(3), Stored(3))>>


\* C34: when every POST request that arrived has been answered with
\* success, the data file holds the cleaned body of the request that arrived
\* last, and that list is what a GET returns.
C34_LastArrivedRequestWins ==
  /\ []((server.arrived > 0 /\ server.jobs = {} /\ ~server.failed) =>
         server.file \in { FileOf(CleanProjectDataWhen(server.last, failed)) :
                             failed \in SUBSET Writes(server.last) })
  /\ [][ (GetProjects /\ server.jobs = {} /\ ~server.failed) =>
           server'.got \in { CleanProjectDataWhen(server.last, failed) :
                               failed \in SUBSET Writes(server.last) } ]_vars



\* C32: a deleted project does not reappear: while deleteCurrentProject,
\* having taken the current project out of the project list, waits for its
\* POST, no save response puts a record with that project's id into the
\* list, and the save request that follows the deletion carries no record
\* with that id.
C32_DeletedProjectStaysOut ==
  /\ [][ ( /\ SaveResponse
           /\ deletePending # {}
           /\ currentProject # Null
           /\ \A i \in 1..Len(projects) : projects[i].id # currentProject.id )
         => \A i \in 1..Len(projects') : projects'[i].id # currentProject.id ]_vars
  /\ [][ (DeleteCurrentProjectResume /\ currentProject # Null)
         => \A data \in inflight' \ inflight :
              \A i \in 1..Len(data) : data[i].id # currentProject.id ]_vars



\* C33: an image import loses no edit of the current project: when the read
\* and resize of the chosen file complete and the new project is created,
\* the record of the then current project, if the project list had one when
\* the file was chosen, is in the project list after the import with the
\* markers and journal entries the list holds for it now, and the save
\* request that follows carries it, whatever was changed since the file was
\* chosen.
C33_ImportKeepsEditsOfCurrentProject ==
  [][ ( /\ ImageUploadDone
        /\ currentProject # Null
        /\ \E u \in uploadPending :
             \E j \in 1..Len(u.projects) : u.projects[j].id = currentProject.id )
      => \A k \in 1..Len(projects) :
           projects[k].id = currentProject.id
           => /\ \E i \in 1..Len(projects') : projects'[i] = projects[k]
              /\ \A data \in inflight' \ inflight :
                   \E i \in 1..Len(data) :
                     data[i] = CleanProject(projects[k], {}) ]_vars



\* A project whose image is the file ProjectB's image is: the same picture
\* was imported twice, and processImage gave both the same path.
ProjectD ==
  [id |-> 4, name |-> "D", image |-> Stored(2),
   markers |-> << StoredMarker(5, 18, 24, 1) >>, globalJournalEntries |-> <<>>]

\* Project switches: the data file holds ProjectA and ProjectD, or ProjectB
\* and ProjectD; the page loads, images are imported, the current project is
\* deleted, the image's load event arrives, and saveData's requests are
\* answered or fail.
NextDraw ==
  \/ LoadDataResponse
  \/ ImageOnLoad
  \/ SaveResponse
  \/ SaveFail
  \/ HandleImageUpload
  \/ ImageUploadDone
  \/ RequestDeleteProject
  \/ CancelDeleteProject
  \/ DeleteCurrentProject
  \/ DeleteCurrentProjectResume

SpecDraw ==
  InitOn({<<ProjectA, ProjectD>>, <<ProjectB, ProjectD>>}) /\ [][NextDraw]_vars

\* SpecDraw under the scheduling the browser gives: an image that is loading
\* is decoded and its load event delivered, a request is answered or fails,
\* a file's read and resize complete, and a deleteCurrentProject that awaits
\* its POST continues.  What the user does is left to the user.
SpecDrawFair ==
  /\ SpecDraw
  /\ WF_vars(ImageOnLoad)
  /\ WF_vars(LoadDataResponse)
  /\ WF_vars(SaveResponse \/ SaveFail)
  /\ WF_vars(ImageUploadDone)
  /\ WF_vars(DeleteCurrentProjectResume)

\* The render effect has just drawn the current project's markers on its
\* loaded image.
MarkersDrawn ==
  /\ currentProject # Null
  /\ imageLoaded
  /\ drawOps = RenderOps(currentProject, markers, relocatingMarker)

\* C35: after loadProject(P), at start-up, after an import or after a
\* deletion, P's image is eventually marked loaded and the render effect
\* eventually runs with P's markers, unless P stops being the current
\* project before; also when P's image reference is the string the
\* previously current project had.
C35_MarkersEventuallyDrawn ==
  \A id \in 1..MaxClock :
    (lastOp = "loadProject" /\ currentProject # Null /\ currentProject.id = id)
      ~> (MarkersDrawn \/ currentProject = Null \/ currentProject.id # id)

====
